---- MODULE Spec2Model ----
(***************************************************************************)
(* Model of the request authentication and abuse-mitigation pipeline of    *)
(* weather-on-route-api (src/index.js): session issuance, the validation   *)
(* gate validateRequest, the honeypot endpoints and the token cleanup      *)
(* interval, together with the in-memory rate limiter they consume.        *)
(*                                                                         *)
(* Time is Date.now() in milliseconds.  A handler runs from one await to   *)
(* the next without interruption (one action per such segment); handlers   *)
(* of different requests interleave at their awaits.                       *)
(***************************************************************************)
EXTENDS Integers, Sequences, FiniteSets, TLC

VARIABLES
    calc,             \* a call of a shared utility function: its argument and result
    now,              \* Date.now(), milliseconds since the process started
    nextSweep,        \* time at which the cleanup timer is due next
    BLOCKED_IPS,      \* config.BLOCKED_IPS
    activeTokens,     \* Map sessionId -> {token, created, clientIp, userAgent}
    sessionLimiters,  \* Map sessionId -> storage of that session's limiter
    globalStore,      \* storage of globalRateLimiter: key -> {value, expiresAt}
    authStore,        \* storage of authRateLimiter
    nextUuid,         \* index of the next value uuidv4() returns
    minted,           \* credentials handed out in responses |-> time of the hand-out
    granted,          \* per tier and key: consume calls resolved in the current window
    slots,            \* the requests in flight, and the last response of each slot
    JWT_SECRET,       \* config.JWT_SECRET = process.env.JWT_SECRET
    API_SECRET        \* config.API_SECRET = process.env.API_SECRET

vars == <<calc, API_SECRET, JWT_SECRET, now, nextSweep, BLOCKED_IPS, activeTokens, sessionLimiters, globalStore,
          authStore, nextUuid, minted, granted, slots>>

----------------------------------------------------------------------------
(* Program constants *)

SESSION_TOKEN_EXPIRY == 3600
GLOBAL_POINTS == 100
GLOBAL_DURATION == 60
AUTH_POINTS == 5
AUTH_DURATION == 60
AUTH_BLOCK == 300
SESSION_POINTS == 50
SESSION_DURATION == 60
SESSION_BLOCK == 60
NO_BLOCK == 0
CLEANUP_INTERVAL_MS == 15 * 60 * 1000
FRONTEND_DOMAIN == "your-frontend-domain.com"
HONEYPOT_ENDPOINTS == {"/api/v1/internal/config", "/api/data/raw", "/api/system/status"}

(* Bounds of the model *)

MaxInflight == 2      \* request slots (handlers in flight at once)
MaxSessions == 2      \* sessions issued in one run
MaxOver == 1          \* consume calls made on a key beyond budget + 1
MaxVaried == 2        \* per key and window: requests of freely chosen shape
MaxCalls == 3         \* per key and window: requests, where clients do not repeat them

----------------------------------------------------------------------------
(* Values *)

IPs == {"ipA", "ipB"}
UuidPool == <<"u1", "u2", "u3", "u4">>
Slots == 1..MaxInflight

\* A credential: the JWT payload's sessionId, iat and exp (seconds), and
\* whether its signature was made with JWT_SECRET.  NoToken is an absent
\* (undefined) token.
NoToken == [sid |-> "", iat |-> 0, exp |-> 0, mac |-> "none"]
Cred(sid, iat, exp, mac) == [sid |-> sid, iat |-> iat, exp |-> exp, mac |-> mac]

\* A credential signed with JWT_SECRET whose session this process never
\* registered (signed by an earlier run of the process with the same secret).
StaleCred == Cred("u0", 0, SESSION_TOKEN_EXPIRY * 1000, "valid")

NoResp == [status |-> 0, body |-> "", token |-> NoToken]
Resp(st, body) == [status |-> st, body |-> body, token |-> NoToken]

\* req.headers.authorization: whether the request has the header, and its
\* value as the word before the first space (scheme) and the word after it
\* (token, NoToken when the value has no second word).
NoHeader == [token |-> NoToken, sent |-> FALSE, scheme |-> ""]
\* the header with the empty string as its value
EmptyHeader == [token |-> NoToken, sent |-> TRUE, scheme |-> ""]
\* "Bearer <tok>", and "Bearer" alone when tok is NoToken
Bearer(tok) == [token |-> tok, sent |-> TRUE, scheme |-> "Bearer"]

\* A request.  method and url: the request line; authorization: the
\* Authorization header; cookie: cookies.session_token; sig:
\* X-Request-Signature (present, value); ts: X-Timestamp value; url:
\* originalUrl; body: JSON.stringify(req.body), or MALFORMED for a body that
\* is not JSON.  Strings that get concatenated are sequences.
Req(method, ip, authorization, cookie, sigPresent, sig, ts, url, body, referer, ua) ==
    [body |-> body, method |-> method, ip |-> ip, authorization |-> authorization,
     cookie |-> cookie, sigPresent |-> sigPresent, sig |-> sig, ts |-> ts, url |-> url,
     referer |-> referer, ua |-> ua]

NoReq == Req("", "", NoHeader, NoToken, FALSE, <<>>, <<>>, <<>>, <<>>, <<>>, "")

\* What the route handler behind the gate has done for a request: the
\* response it sent before calling a backend (NoResp when none) and the
\* backend it called ("" when none).
NoProxy == [resp |-> NoResp, backend |-> ""]

IdleSlot == [token |-> NoToken, resp |-> NoResp, kind |-> "none", pc |-> "idle",
             req |-> NoReq, settled |-> FALSE, steps |-> <<>>, sessionId |-> "",
             proxy |-> NoProxy]

Empty == [k \in {} |-> 0]

----------------------------------------------------------------------------
(* rate-limiter-flexible, RateLimiterMemory: the storage is a map from key *)
(* to {value, expiresAt}.  A record whose expiresAt has passed is treated  *)
(* by incrby exactly as a missing key, so the timer that deletes it is not *)
(* a separate step.                                                        *)

\* MemoryStorage.set(key, value, durationSec)
StorageSet(store, key, value, durationSec, t) ==
    (key :> [value |-> value, expiresAt |-> t + durationSec * 1000]) @@ store

\* MemoryStorage.incrby(key, 1, durationSec); first = isFirstInDuration
StorageIncrby(store, key, durationSec, t) ==
    IF key \in DOMAIN store /\ store[key].expiresAt - t > 0
    THEN [store |-> [store EXCEPT ![key].value = @ + 1], first |-> FALSE]
    ELSE [store |-> StorageSet(store, key, 1, durationSec, t), first |-> TRUE]

\* Consume with the budget compared one call late
ConsumeLate(points, duration, blockDuration, store, key, t) ==
    LET r == StorageIncrby(store, key, duration, t)
        consumed == r.store[key].value
    IN  IF consumed > points + 1
        THEN [store |-> IF blockDuration > 0 /\ consumed <= points + 2
                        THEN StorageSet(r.store, key, consumed, blockDuration, t)
                        ELSE r.store,
              first |-> r.first, allowed |-> FALSE]
        ELSE [store |-> r.store, first |-> r.first, allowed |-> TRUE]

\* Consume with the key blocked again by every call beyond the budget
ConsumeExtending(points, duration, blockDuration, store, key, t) ==
    LET r == StorageIncrby(store, key, duration, t)
        consumed == r.store[key].value
    IN  IF consumed > points
        THEN [store |-> IF blockDuration > 0
                        THEN StorageSet(r.store, key, consumed, blockDuration, t)
                        ELSE r.store,
              first |-> r.first, allowed |-> FALSE]
        ELSE [store |-> r.store, first |-> r.first, allowed |-> TRUE]

\* RateLimiterMemory.consume(key): the promise resolves (allowed) or rejects
\* with a RateLimiterRes; the key is blocked only by the first call beyond
\* the budget.
Consume(points, duration, blockDuration, store, key, t) ==
    LET r == StorageIncrby(store, key, duration, t)
        consumed == r.store[key].value
    IN  IF consumed > points
        THEN [store |-> IF blockDuration > 0 /\ consumed <= points + 1
                        THEN StorageSet(r.store, key, consumed, blockDuration, t)
                        ELSE r.store,
              first |-> r.first, allowed |-> FALSE]
        ELSE [store |-> r.store, first |-> r.first, allowed |-> TRUE]

\* Points consumed on a key in its current window (0 when none is open).
Consumed(store, key, t) ==
    IF key \in DOMAIN store /\ store[key].expiresAt - t > 0 THEN store[key].value ELSE 0

\* The tally of resolved consume calls of a key's current window.
Tally(g, key, res) ==
    (key :> ((IF res.first THEN 0 ELSE g[key]) + (IF res.allowed THEN 1 ELSE 0))) @@ g

----------------------------------------------------------------------------
(* jsonwebtoken and crypto-js *)

\* process.env.JWT_SECRET, process.env.API_SECRET when the variable is not set
UNDEFINED == "undefined"

\* the value the deployment gives API_SECRET, which its clients sign with
SHARED_SECRET == "API_SECRET"

\* jwt.sign(payload, JWT_SECRET, options) does not throw: the secret has a value
CanSign == JWT_SECRET # UNDEFINED

\* jwt.sign({sessionId}, JWT_SECRET, {expiresIn}) when it reads the clock at
\* t: iat = floor(t / 1000), exp = iat + expiresIn
JwtSign(sid, t) ==
    LET iat == t \div 1000
    IN  Cred(sid, iat, iat + SESSION_TOKEN_EXPIRY, "valid")

\* JwtVerify with the credential still accepted in the second of its expiry
JwtVerifyLate(tok, t) == tok.mac = "valid" /\ (t \div 1000) <= tok.exp

\* jwt.verify(token, JWT_SECRET) does not throw (it throws without a secret)
JwtVerify(tok, t) == JWT_SECRET # UNDEFINED /\ tok.mac = "valid" /\ (t \div 1000) < tok.exp

\* cryptoJS.HmacSHA256(message, key) does not throw: the key has a value
CanHmac == API_SECRET # UNDEFINED

\* cryptoJS.HmacSHA256(message, key).toString(): one value per (key, message)
HmacSHA256(msg, key) == <<"hmac", key>> \o msg

ExpectedSignatureNoSession(r, sid) == HmacSHA256(r.ts \o r.url \o r.body, API_SECRET)

\* `${timestamp}${path}${body}${decoded.sessionId}` signed with API_SECRET
ExpectedSignature(r, sid) == HmacSHA256(r.ts \o r.url \o r.body \o <<sid>>, API_SECRET)

\* The truth value JavaScript gives req.headers.authorization: undefined
\* (no header) and the empty string are falsy, every other string is truthy.
Truthy(authHeader) ==
    authHeader.sent /\ ~(authHeader.scheme = "" /\ authHeader.token = NoToken)

\* TokenOf with the cookie taken when the header holds no token
TokenOfEither(r) ==
    IF Truthy(r.authorization) /\ r.authorization.token # NoToken
    THEN r.authorization.token
    ELSE r.cookie

\* authHeader ? authHeader.split(' ')[1] : req.cookies.session_token
TokenOf(r) ==
    IF Truthy(r.authorization)
    THEN r.authorization.token
    ELSE r.cookie

\* RefererTrusted with every referrer taken as trusted
RefererTrustedAny(referer) == TRUE

\* referrer.includes('your-frontend-domain.com'), the referrer as its pieces
RefererTrusted(referer) == \E i \in 1..Len(referer) : referer[i] = FRONTEND_DOMAIN

\* Uuid returning the same value every time
UuidAgain == UuidPool[1]

\* uuidv4(): a value never returned before
Uuid == UuidPool[nextUuid]

----------------------------------------------------------------------------
\* The state when the server starts listening, JWT_SECRET as the environment
\* gives it.
\* No utility function has been called.
NoCalc == [pc |-> "idle", steps |-> <<>>, op |-> "none", seconds |-> 0,
           waypoints |-> <<>>, text |-> <<>>]

Start ==
    /\ calc = NoCalc
    /\ now = 0
    /\ nextSweep = CLEANUP_INTERVAL_MS
    /\ BLOCKED_IPS = {}
    /\ activeTokens = Empty
    /\ sessionLimiters = Empty
    /\ globalStore = Empty
    /\ authStore = Empty
    /\ nextUuid = 1
    /\ minted = Empty
    /\ granted = [global |-> Empty, auth |-> Empty, session |-> Empty]
    /\ slots = [s \in Slots |-> IdleSlot]

Init == JWT_SECRET = "JWT_SECRET" /\ API_SECRET = SHARED_SECRET /\ Start

\* the credentials clients hold
Minted == DOMAIN minted

Free(s) == slots[s].pc \in {"idle", "done", "admitted"}

Done(sl, st, body) == [sl EXCEPT !.pc = "done", !.resp = Resp(st, body)]

Begin(kind, pc, r, settled, step) ==
    [token |-> NoToken, resp |-> NoResp, kind |-> kind, pc |-> pc, req |-> r,
     settled |-> settled, steps |-> <<step>>, sessionId |-> "", proxy |-> NoProxy]

----------------------------------------------------------------------------
(* POST /api/auth/session *)

\* A handler stands between jwt.sign and `created: Date.now()`.  The code is
\* synchronous from the one to the other: no other handler and no timer
\* callback runs until the record is stored, only the clock moves.
Signing == \E s \in Slots : slots[s].pc = "signed"

\* from the referrer check to the return of jwt.sign, for the request of
\* slot record sl; a rejected consume has thrown and is answered by the
\* catch.  jwt.sign reads the clock; the handler reads it again when it
\* stores the record (IssueStore).
Issue(s, sl) ==
    LET r == sl.req
    IN  IF ~sl.settled
        THEN /\ slots' = [slots EXCEPT ![s] = Done(sl, 429, "Too many requests, please wait")]
             /\ UNCHANGED <<activeTokens, sessionLimiters, nextUuid, minted, granted>>
        ELSE IF ~RefererTrusted(r.referer)
        THEN /\ slots' = [slots EXCEPT ![s] = Done(sl, 403, "Invalid referrer")]
             /\ UNCHANGED <<activeTokens, sessionLimiters, nextUuid, minted, granted>>
        ELSE IF ~CanSign
        THEN \* jwt.sign throws, the sessionId drawn is dropped
             /\ slots' = [slots EXCEPT ![s] = Done(sl, 500, "Server error")]
             /\ UNCHANGED <<activeTokens, sessionLimiters, nextUuid, minted, granted>>
        ELSE LET sessionId == Uuid
                 token == JwtSign(sessionId, now)
             IN  /\ nextUuid' = nextUuid + 1
                 /\ slots' = [slots EXCEPT ![s] = [sl EXCEPT !.pc = "signed", !.token = token]]
                 /\ UNCHANGED <<activeTokens, sessionLimiters, minted, granted>>

\* IssueStart with an auth limiter that has no blockDuration
IssueStartNoBlock(s, r) ==
    /\ ~Signing
    /\ Free(s)
    /\ IF r.ip = UNDEFINED
       THEN /\ Issue(s, [Begin("issue", "awaitAuth", r, TRUE, "auth") EXCEPT !.steps = <<>>])
            /\ UNCHANGED authStore
       ELSE LET c == Consume(AUTH_POINTS, AUTH_DURATION, NO_BLOCK, authStore, r.ip, now)
            IN  /\ authStore' = c.store
                /\ granted' = [granted EXCEPT !.auth = Tally(@, r.ip, c)]
                /\ slots' = [slots EXCEPT ![s] = Begin("issue", "awaitAuth", r, c.allowed, "auth")]
                /\ UNCHANGED <<activeTokens, sessionLimiters, nextUuid, minted>>
    /\ UNCHANGED <<calc, API_SECRET, JWT_SECRET, now, nextSweep, BLOCKED_IPS, globalStore>>

\* up to `await authRateLimiter.consume(req.ip)`; a request without req.ip
\* consumes nothing, meets no await and goes on to jwt.sign in the same step
IssueStart(s, r) ==
    /\ ~Signing
    /\ Free(s)
    /\ IF r.ip = UNDEFINED
       THEN /\ Issue(s, [Begin("issue", "awaitAuth", r, TRUE, "auth") EXCEPT !.steps = <<>>])
            /\ UNCHANGED authStore
       ELSE LET c == Consume(AUTH_POINTS, AUTH_DURATION, AUTH_BLOCK, authStore, r.ip, now)
            IN  /\ authStore' = c.store
                /\ granted' = [granted EXCEPT !.auth = Tally(@, r.ip, c)]
                /\ slots' = [slots EXCEPT ![s] = Begin("issue", "awaitAuth", r, c.allowed, "auth")]
                /\ UNCHANGED <<activeTokens, sessionLimiters, nextUuid, minted>>
    /\ UNCHANGED <<calc, API_SECRET, JWT_SECRET, now, nextSweep, BLOCKED_IPS, globalStore>>

\* IssueAfterAuth with the session recorded before the credential is signed
IssueAfterAuthStoreFirst(s) ==
    /\ ~Signing
    /\ slots[s].pc = "awaitAuth"
    /\ LET sl == slots[s]
           r == sl.req
       IN  IF ~sl.settled
           THEN /\ slots' = [slots EXCEPT ![s] = Done(sl, 429, "Too many requests, please wait")]
                /\ UNCHANGED <<activeTokens, sessionLimiters, nextUuid, minted, granted>>
           ELSE IF ~RefererTrusted(r.referer)
           THEN /\ slots' = [slots EXCEPT ![s] = Done(sl, 403, "Invalid referrer")]
                /\ UNCHANGED <<activeTokens, sessionLimiters, nextUuid, minted, granted>>
           ELSE IF ~CanSign
           THEN LET sessionId == Uuid
                IN  /\ nextUuid' = nextUuid + 1
                    /\ activeTokens' = (sessionId :> [token |-> NoToken, created |-> now,
                                                      clientIp |-> r.ip, userAgent |-> r.ua])
                                       @@ activeTokens
                    /\ sessionLimiters' = (sessionId :> Empty) @@ sessionLimiters
                    /\ granted' = [granted EXCEPT !.session = (sessionId :> 0) @@ @]
                    /\ slots' = [slots EXCEPT ![s] = Done(sl, 500, "Server error")]
                    /\ UNCHANGED minted
           ELSE LET sessionId == Uuid
                    token == JwtSign(sessionId, now)
                IN  /\ nextUuid' = nextUuid + 1
                    /\ slots' = [slots EXCEPT ![s] = [sl EXCEPT !.pc = "signed", !.token = token]]
                    /\ UNCHANGED <<activeTokens, sessionLimiters, minted, granted>>
    /\ UNCHANGED <<calc, API_SECRET, JWT_SECRET, now, nextSweep, BLOCKED_IPS, globalStore, authStore>>

\* from the await to the return of jwt.sign (or to the response of a request
\* that is refused)
IssueAfterAuth(s) ==
    /\ ~Signing
    /\ slots[s].pc = "awaitAuth"
    /\ Issue(s, slots[s])
    /\ UNCHANGED <<calc, API_SECRET, JWT_SECRET, now, nextSweep, BLOCKED_IPS, globalStore, authStore>>

\* IssueStore with no limiter created for the session
IssueStoreNoLimiter(s) ==
    /\ slots[s].pc = "signed"
    /\ LET sl == slots[s]
           r == sl.req
           token == sl.token
           sessionId == token.sid
       IN  /\ activeTokens' = (sessionId :> [token |-> token, created |-> now,
                                             clientIp |-> r.ip, userAgent |-> r.ua])
                              @@ activeTokens
           /\ minted' = (token :> now) @@ minted
           /\ slots' = [slots EXCEPT ![s] =
                           [sl EXCEPT !.pc = "done", !.token = NoToken,
                                      !.resp = [status |-> 200, body |-> "", token |-> token]]]
    /\ UNCHANGED <<calc, API_SECRET, JWT_SECRET, now, nextSweep, BLOCKED_IPS, sessionLimiters,
                   granted, globalStore, authStore, nextUuid>>

\* from activeTokens.set to the response: `created: Date.now()` reads the
\* clock after jwt.sign has, by however long the process was held up in
\* between.
IssueStore(s) ==
    /\ slots[s].pc = "signed"
    /\ LET sl == slots[s]
           r == sl.req
           token == sl.token
           sessionId == token.sid
       IN  /\ activeTokens' = (sessionId :> [token |-> token, created |-> now,
                                             clientIp |-> r.ip, userAgent |-> r.ua])
                              @@ activeTokens
           /\ sessionLimiters' = (sessionId :> Empty) @@ sessionLimiters
           /\ granted' = [granted EXCEPT !.session = (sessionId :> 0) @@ @]
           /\ minted' = (token :> now) @@ minted
           /\ slots' = [slots EXCEPT ![s] =
                           [sl EXCEPT !.pc = "done", !.token = NoToken,
                                      !.resp = [status |-> 200, body |-> "", token |-> token]]]
    /\ UNCHANGED <<calc, API_SECRET, JWT_SECRET, now, nextSweep, BLOCKED_IPS, globalStore,
                   authStore, nextUuid>>

----------------------------------------------------------------------------
(* validateRequest *)

\* GateStart with a global limiter of twice the points
GateStartDouble(s, r) ==
    /\ ~Signing
    /\ Free(s)
    /\ LET c == Consume(2 * GLOBAL_POINTS, GLOBAL_DURATION, NO_BLOCK, globalStore, r.ip, now)
       IN  /\ globalStore' = c.store
           /\ granted' = [granted EXCEPT !.global = Tally(@, r.ip, c)]
           /\ slots' = [slots EXCEPT ![s] = Begin("proxy", "awaitGlobal", r, c.allowed, "global")]
    /\ UNCHANGED <<calc, API_SECRET, JWT_SECRET, now, nextSweep, BLOCKED_IPS, activeTokens, sessionLimiters,
                   authStore, nextUuid, minted>>

\* up to `await globalRateLimiter.consume(req.ip)`
GateStart(s, r) ==
    /\ ~Signing
    /\ Free(s)
    /\ LET c == Consume(GLOBAL_POINTS, GLOBAL_DURATION, NO_BLOCK, globalStore, r.ip, now)
       IN  /\ globalStore' = c.store
           /\ granted' = [granted EXCEPT !.global = Tally(@, r.ip, c)]
           /\ slots' = [slots EXCEPT ![s] = Begin("proxy", "awaitGlobal", r, c.allowed, "global")]
    /\ UNCHANGED <<calc, API_SECRET, JWT_SECRET, now, nextSweep, BLOCKED_IPS, activeTokens, sessionLimiters,
                   authStore, nextUuid, minted>>

RateLimited == Resp(429, "Rate limit reached. Please wait.")
Forbidden == Resp(403, "Access denied")
Unauthenticated == Resp(401, "No token provided")
InvalidToken == Resp(401, "Invalid or expired token")
InvalidSessionTeapot == Resp(418, "Invalid session")
InvalidSession == Resp(401, "Invalid session")
SecurityViolation == Resp(403, "Security violation detected")
InvalidSignature == Resp(403, "Invalid request signature")
ServerError == Resp(500, "Server error")

IsBlockedNever(ip) == FALSE

\* config.BLOCKED_IPS.has(req.ip)
IsBlocked(ip) == ip \in BLOCKED_IPS

BlockIpDropped(ip) == BLOCKED_IPS

\* BlockIp with the list replaced by the one IP
BlockIpOnly(ip) == {ip}

\* config.BLOCKED_IPS.add(req.ip)
BlockIp(ip) == BLOCKED_IPS \cup {ip}

\* sessionInfo.clientIp !== req.ip
\* FingerprintMismatch with the user agent compared as well
FingerprintMismatchAgent(sessionInfo, r) ==
    sessionInfo.clientIp # r.ip \/ sessionInfo.userAgent # r.ua

FingerprintMismatch(sessionInfo, r) == sessionInfo.clientIp # r.ip

\* GateChecks with the session looked up before the credential is verified
GateChecksLookupFirst(r, t) ==
    LET token == TokenOf(r)
        sid == token.sid
        Out(n, resp, block) ==
            [resp |-> resp,
             steps |-> SubSeq(<<"blocklist", "credential", "session", "verify", "fingerprint">>, 1, n),
             block |-> block]
    IN  IF IsBlocked(r.ip) THEN Out(1, Forbidden, FALSE)
        ELSE IF token = NoToken THEN Out(2, Unauthenticated, FALSE)
        ELSE IF sid \notin DOMAIN activeTokens THEN Out(3, InvalidSession, FALSE)
        ELSE IF ~JwtVerify(token, t) THEN Out(4, InvalidToken, FALSE)
        ELSE IF FingerprintMismatch(activeTokens[sid], r) THEN Out(5, SecurityViolation, TRUE)
        ELSE Out(5, NoResp, FALSE)

\* GateChecks with the credential looked for before the blocklist is consulted
GateChecksSwapped(r, t) ==
    LET token == TokenOf(r)
        sid == token.sid
        Out(n, resp, block) ==
            [resp |-> resp,
             steps |-> SubSeq(<<"credential", "blocklist", "verify", "session", "fingerprint">>, 1, n),
             block |-> block]
    IN  IF token = NoToken THEN Out(1, Unauthenticated, FALSE)
        ELSE IF IsBlocked(r.ip) THEN Out(2, Forbidden, FALSE)
        ELSE IF ~JwtVerify(token, t) THEN Out(3, InvalidToken, FALSE)
        ELSE IF sid \notin DOMAIN activeTokens THEN Out(4, InvalidSession, FALSE)
        ELSE IF FingerprintMismatch(activeTokens[sid], r) THEN Out(5, SecurityViolation, TRUE)
        ELSE Out(5, NoResp, FALSE)

\* The checks between the two awaits, in the order the code makes them: the
\* checks made, the response of the first that fails (NoResp when none
\* does), and whether the caller's IP is added to the blocklist.
GateChecks(r, t) ==
    LET token == TokenOf(r)
        sid == token.sid
        Out(n, resp, block) ==
            [resp |-> resp,
             steps |-> SubSeq(<<"blocklist", "credential", "verify", "session", "fingerprint">>, 1, n),
             block |-> block]
    IN  IF IsBlocked(r.ip) THEN Out(1, Forbidden, FALSE)
        ELSE IF token = NoToken THEN Out(2, Unauthenticated, FALSE)
        ELSE IF ~JwtVerify(token, t) THEN Out(3, InvalidToken, FALSE)
        ELSE IF sid \notin DOMAIN activeTokens THEN Out(4, InvalidSession, FALSE)
        ELSE IF FingerprintMismatch(activeTokens[sid], r) THEN Out(5, SecurityViolation, TRUE)
        ELSE Out(5, NoResp, FALSE)

\* `if (signature)`: the header is there and its value is not empty
SignatureGiven(r) == r.sigPresent /\ r.sig # <<>>

\* app.post('/api/proxy/:service', validateRequest, ...): the path and its
\* parameter
PROXY_PREFIX == "/api/proxy/"
ProxyUrl(service) == <<PROXY_PREFIX, service>>
ServiceOf(r) == r.url[2]

ALLOWED_SERVICES == {"weather", "direction", "search"}
InvalidService == Resp(400, "Invalid service")

\* ProxyHandler with the backend called before the service is validated
ProxyHandlerNoCheck(sl) ==
    [sl EXCEPT !.proxy = [resp |-> NoResp, backend |-> ServiceOf(sl.req)]]

\* The route handler, from its start to the await of the backend: an
\* unknown service is answered 400 and no backend is called, a known one
\* has its backend called.  (The switch's default branch cannot be taken: it
\* would need a service that is in allowedServices and is none of the
\* three.)
ProxyHandler(sl) ==
    IF ServiceOf(sl.req) \notin ALLOWED_SERVICES
    THEN [sl EXCEPT !.proxy = [resp |-> InvalidService, backend |-> ""]]
    ELSE [sl EXCEPT !.proxy = [resp |-> NoResp, backend |-> ServiceOf(sl.req)]]

\* step 6 and next(): the signature check of a request whose decoded
\* session is sid; next() runs the route handler.  Without a key the HMAC
\* throws, and the catch of validateRequest answers an error that carries no
\* remainingPoints with 500.
CheckSignature(sl, sid) ==
    LET r == sl.req
        st == [sl EXCEPT !.steps = IF SignatureGiven(r) THEN Append(@, "signature") ELSE @]
    IN  IF SignatureGiven(r) /\ ~CanHmac
        THEN [st EXCEPT !.pc = "done", !.resp = ServerError]
        ELSE IF SignatureGiven(r) /\ r.sig # ExpectedSignature(r, sid)
        THEN [st EXCEPT !.pc = "done", !.resp = InvalidSignature]
        ELSE ProxyHandler([st EXCEPT !.pc = "admitted", !.sessionId = sid])

\* GateAfterGlobal with the session of a fingerprint mismatch revoked
GateAfterGlobalRevoking(s) ==
    /\ ~Signing
    /\ slots[s].pc = "awaitGlobal"
    /\ LET sl == slots[s]
           r == sl.req
           sid == TokenOf(r).sid
           chk == GateChecks(r, now)
           after == [sl EXCEPT !.steps = @ \o chk.steps]
       IN  IF ~sl.settled
           THEN /\ slots' = [slots EXCEPT ![s] = [sl EXCEPT !.pc = "done", !.resp = RateLimited]]
                /\ UNCHANGED <<BLOCKED_IPS, activeTokens, sessionLimiters, granted>>
           ELSE IF chk.resp # NoResp
           THEN /\ BLOCKED_IPS' = IF chk.block THEN BlockIp(r.ip) ELSE BLOCKED_IPS
                /\ activeTokens' = IF chk.block
                                   THEN [k \in DOMAIN activeTokens \ {sid} |-> activeTokens[k]]
                                   ELSE activeTokens
                /\ sessionLimiters' = IF chk.block
                                      THEN [k \in DOMAIN sessionLimiters \ {sid} |->
                                               sessionLimiters[k]]
                                      ELSE sessionLimiters
                /\ slots' = [slots EXCEPT ![s] = [after EXCEPT !.pc = "done", !.resp = chk.resp]]
                /\ UNCHANGED granted
           ELSE IF sid \in DOMAIN sessionLimiters
           THEN LET c == Consume(SESSION_POINTS, SESSION_DURATION, SESSION_BLOCK,
                                 sessionLimiters[sid], sid, now)
                IN  /\ sessionLimiters' = [sessionLimiters EXCEPT ![sid] = c.store]
                    /\ granted' = [granted EXCEPT !.session = Tally(@, sid, c)]
                    /\ slots' = [slots EXCEPT ![s] =
                                    [after EXCEPT !.pc = "awaitSession", !.settled = c.allowed,
                                                  !.steps = Append(@, "sessionLimit")]]
                    /\ UNCHANGED <<BLOCKED_IPS, activeTokens>>
           ELSE /\ slots' = [slots EXCEPT ![s] = CheckSignature(after, sid)]
                /\ UNCHANGED <<BLOCKED_IPS, activeTokens, sessionLimiters, granted>>
    /\ UNCHANGED <<calc, API_SECRET, JWT_SECRET, now, nextSweep, globalStore, authStore, nextUuid, minted>>

\* from the first await to the second one (or to the response)
GateAfterGlobal(s) ==
    /\ ~Signing
    /\ slots[s].pc = "awaitGlobal"
    /\ LET sl == slots[s]
           r == sl.req
           sid == TokenOf(r).sid
           chk == GateChecks(r, now)
           after == [sl EXCEPT !.steps = @ \o chk.steps]
       IN  IF ~sl.settled
           THEN /\ slots' = [slots EXCEPT ![s] = [sl EXCEPT !.pc = "done", !.resp = RateLimited]]
                /\ UNCHANGED <<BLOCKED_IPS, sessionLimiters, granted>>
           ELSE IF chk.resp # NoResp
           THEN /\ BLOCKED_IPS' = IF chk.block THEN BlockIp(r.ip) ELSE BLOCKED_IPS
                /\ slots' = [slots EXCEPT ![s] = [after EXCEPT !.pc = "done", !.resp = chk.resp]]
                /\ UNCHANGED <<sessionLimiters, granted>>
           ELSE IF sid \in DOMAIN sessionLimiters
           THEN LET c == Consume(SESSION_POINTS, SESSION_DURATION, SESSION_BLOCK,
                                 sessionLimiters[sid], sid, now)
                IN  /\ sessionLimiters' = [sessionLimiters EXCEPT ![sid] = c.store]
                    /\ granted' = [granted EXCEPT !.session = Tally(@, sid, c)]
                    /\ slots' = [slots EXCEPT ![s] =
                                    [after EXCEPT !.pc = "awaitSession", !.settled = c.allowed,
                                                  !.steps = Append(@, "sessionLimit")]]
                    /\ UNCHANGED BLOCKED_IPS
           ELSE /\ slots' = [slots EXCEPT ![s] = CheckSignature(after, sid)]
                /\ UNCHANGED <<BLOCKED_IPS, sessionLimiters, granted>>
    /\ UNCHANGED <<calc, API_SECRET, JWT_SECRET, now, nextSweep, activeTokens, globalStore, authStore, nextUuid, minted>>

\* from `await sessionLimiter.consume(decoded.sessionId)` to the response
GateAfterSession(s) ==
    /\ ~Signing
    /\ slots[s].pc = "awaitSession"
    /\ LET sl == slots[s]
       IN  slots' = [slots EXCEPT ![s] =
                        IF ~sl.settled
                        THEN [sl EXCEPT !.pc = "done", !.resp = RateLimited]
                        ELSE CheckSignature(sl, TokenOf(sl.req).sid)]
    /\ UNCHANGED <<calc, API_SECRET, JWT_SECRET, now, nextSweep, BLOCKED_IPS, activeTokens, sessionLimiters,
                   globalStore, authStore, nextUuid, minted, granted>>

----------------------------------------------------------------------------
(* Honeypot endpoints: app.all(endpoint, ...), any method *)

HoneypotSilent(s, r) ==
    /\ ~Signing
    /\ Free(s)
    /\ slots' = [slots EXCEPT ![s] =
                    [Begin("honeypot", "done", r, FALSE, "honeypot") EXCEPT
                        !.resp = Resp(200, "ok")]]
    /\ UNCHANGED <<calc, API_SECRET, JWT_SECRET, now, nextSweep, BLOCKED_IPS, activeTokens, sessionLimiters, globalStore,
                   authStore, nextUuid, minted, granted>>

Honeypot(s, r) ==
    /\ ~Signing
    /\ Free(s)
    /\ BLOCKED_IPS' = BlockIp(r.ip)
    /\ slots' = [slots EXCEPT ![s] =
                    [Begin("honeypot", "done", r, FALSE, "honeypot") EXCEPT
                        !.resp = Resp(200, "ok")]]
    /\ UNCHANGED <<calc, API_SECRET, JWT_SECRET, now, nextSweep, activeTokens, sessionLimiters, globalStore,
                   authStore, nextUuid, minted, granted>>

----------------------------------------------------------------------------
(* Token cleanup: setInterval(..., 15 * 60 * 1000) *)

\* Expired with the TTL taken as milliseconds
ExpiredSeconds(info, t) == t - info.created > SESSION_TOKEN_EXPIRY

\* Expired with the age compared with twice the TTL
ExpiredTwice(info, t) == t - info.created > 2 * SESSION_TOKEN_EXPIRY * 1000

\* Expired with the age compared by >=
ExpiredAtTtl(info, t) == t - info.created >= SESSION_TOKEN_EXPIRY * 1000

\* now - info.created > config.SESSION_TOKEN_EXPIRY * 1000
Expired(info, t) == t - info.created > SESSION_TOKEN_EXPIRY * 1000

\* Cleanup with the limiters of the removed sessions left behind
CleanupRecordsOnly(armedAt) ==
    /\ ~Signing
    /\ nextSweep <= armedAt /\ armedAt <= now
    /\ LET gone == {sid \in DOMAIN activeTokens : Expired(activeTokens[sid], now)}
       IN  activeTokens' = [sid \in DOMAIN activeTokens \ gone |-> activeTokens[sid]]
    /\ nextSweep' = armedAt + CLEANUP_INTERVAL_MS
    /\ UNCHANGED <<calc, API_SECRET, JWT_SECRET, now, BLOCKED_IPS, sessionLimiters, granted, globalStore,
                   authStore, nextUuid, minted, slots>>

\* The callback of setInterval.  Node reads the event loop's time when the
\* timer is due or overdue (armedAt), calls the callback, and arms the timer
\* again from the time it read; the callback's own Date.now() comes after
\* that reading by however long the process is held up in between.
Cleanup(armedAt) ==
    /\ ~Signing
    /\ nextSweep <= armedAt /\ armedAt <= now
    /\ LET gone == {sid \in DOMAIN activeTokens : Expired(activeTokens[sid], now)}
       IN  /\ activeTokens' = [sid \in DOMAIN activeTokens \ gone |-> activeTokens[sid]]
           /\ sessionLimiters' = [sid \in DOMAIN sessionLimiters \ gone |-> sessionLimiters[sid]]
           /\ granted' = [granted EXCEPT !.session = [sid \in DOMAIN @ \ gone |-> @[sid]]]
    /\ nextSweep' = armedAt + CLEANUP_INTERVAL_MS
    /\ UNCHANGED <<calc, API_SECRET, JWT_SECRET, now, BLOCKED_IPS, globalStore, authStore, nextUuid, minted, slots>>

\* MemoryStorage's timers (the setTimeout of set): at time t the records
\* whose duration is over have been deleted
Timers(store, t) == [k \in {j \in DOMAIN store : store[j].expiresAt - t > 0} |-> store[k]]

\* The clock advances to t.  Nothing bounds how long after its time a due
\* cleanup runs: the clock passes nextSweep, and handlers run, while the
\* callback waits for the event loop.  The clock also advances while a
\* handler stands between its two readings of it.
Tick(t) ==
    /\ t > now
    /\ now' = t
    /\ globalStore' = Timers(globalStore, t)
    /\ authStore' = Timers(authStore, t)
    /\ sessionLimiters' = [sid \in DOMAIN sessionLimiters |-> Timers(sessionLimiters[sid], t)]
    /\ granted' = [global |-> [ip \in DOMAIN globalStore' |-> granted.global[ip]],
                   auth |-> [ip \in DOMAIN authStore' |-> granted.auth[ip]],
                   session |-> [sid \in DOMAIN granted.session |->
                                   IF sid \in DOMAIN sessionLimiters'
                                      /\ sid \in DOMAIN sessionLimiters'[sid]
                                   THEN granted.session[sid] ELSE 0]]
    /\ UNCHANGED <<calc, API_SECRET, JWT_SECRET, nextSweep, BLOCKED_IPS, activeTokens, nextUuid, minted, slots>>

----------------------------------------------------------------------------
(* Routing: the middleware in the order of its app.use, express.json() and *)
(* cors(corsOptions), then app.all(honeypot), app.post('/api/auth/session') *)
(* and app.post('/api/proxy/:service', validateRequest, ...).  helmet() and *)
(* cookieParser() end no request.                                          *)

AUTH_URL == <<"/api/auth/session">>
PROXY_URL == ProxyUrl("weather")

\* a request body that express.json() rejects: JSON that does not parse
MALFORMED == <<"{">>

\* Express's default error handler answers the error of express.json()
BadRequest == Resp(400, "SyntaxError")

\* the answer of cors to an OPTIONS request: optionsSuccessStatus, no body
NoContent == Resp(204, "")

\* A middleware ends request r with response resp: no route handler runs.
Ended(s, r, step, resp) ==
    /\ ~Signing
    /\ Free(s)
    /\ slots' = [slots EXCEPT ![s] =
                    [Begin("middleware", "done", r, FALSE, step) EXCEPT !.resp = resp]]
    /\ UNCHANGED <<calc, API_SECRET, JWT_SECRET, now, nextSweep, BLOCKED_IPS, activeTokens,
                   sessionLimiters, globalStore, authStore, nextUuid, minted, granted>>

\* express.json() on a body that is not JSON: it passes the parse error on,
\* and the request is answered 400
JsonParser(s, r) == Ended(s, r, "json", BadRequest)

\* cors(corsOptions) on an OPTIONS request: preflightContinue is not set, and
\* the middleware ends the request with 204 whatever its path and origin
Cors(s, r) == Ended(s, r, "cors", NoContent)

Route(r) ==
    IF r.body = MALFORMED THEN "json"
    ELSE IF r.method = "OPTIONS" THEN "cors"
    ELSE IF r.url \in {<<e>> : e \in HONEYPOT_ENDPOINTS} THEN "honeypot"
    ELSE IF r.method = "POST" /\ r.url = AUTH_URL THEN "issue"
    ELSE IF r.method = "POST" /\ Len(r.url) = 2 /\ r.url[1] = PROXY_PREFIX THEN "proxy"
    ELSE "none"

\* Request r arrives and is handled in slot s up to its first await or its
\* response.
Send(s, r) ==
    CASE Route(r) = "json" -> JsonParser(s, r)
      [] Route(r) = "cors" -> Cors(s, r)
      [] Route(r) = "honeypot" -> Honeypot(s, r)
      [] Route(r) = "issue" -> IssueStart(s, r)
      [] Route(r) = "proxy" -> GateStart(s, r)
      [] OTHER -> FALSE

\* A handler in flight goes on after its await.
Resume(S) ==
    \E s \in S : IssueAfterAuth(s) \/ IssueStore(s) \/ GateAfterGlobal(s) \/ GateAfterSession(s)

----------------------------------------------------------------------------
(* The clients.  A client sends requests of freely chosen shape while the  *)
(* limiter keys are fresh (fewer than MaxVaried points consumed in their   *)
(* windows); past that, clients only send their last request again, and no *)
(* key is consumed more than MaxOver times past the call that blocked it.  *)

BODY == <<"{}">>
GOOD_REFERER == <<"https://", FRONTEND_DOMAIN, "/">>
BAD_SIG == <<"hmac", "x">>
TS == <<"1">>

ProxyReq(ip, authorization, cookie, sigPresent, sig, ts) ==
    Req("POST", ip, authorization, cookie, sigPresent, sig, ts, PROXY_URL, BODY, <<>>, "ua1")

IssueReq(ip, referer, ua) ==
    Req("POST", ip, NoHeader, NoToken, FALSE, <<>>, <<>>, AUTH_URL, BODY, referer, ua)

HoneypotReq(method, ip, endpoint, bearer) ==
    Req(method, ip, IF bearer = NoToken THEN NoHeader ELSE Bearer(bearer), NoToken,
        FALSE, <<>>, <<>>, <<endpoint>>, BODY, <<>>, "ua1")

SessionConsumed(sid) ==
    IF sid \in DOMAIN sessionLimiters THEN Consumed(sessionLimiters[sid], sid, now) ELSE 0

Quiet ==
    /\ \A ip \in IPs : Consumed(globalStore, ip, now) < MaxVaried
    /\ \A ip \in IPs : Consumed(authStore, ip, now) < MaxVaried
    /\ \A sid \in DOMAIN sessionLimiters : SessionConsumed(sid) < MaxVaried

Alone(ip) ==
    /\ DOMAIN globalStore \subseteq {ip}
    /\ DOMAIN authStore \subseteq {ip}
    /\ BLOCKED_IPS \subseteq {ip}

\* Uuids left for the issuances that may still succeed.
UuidLeft ==
    nextUuid + Cardinality({s \in Slots : slots[s].pc = "awaitAuth" /\ slots[s].settled})
        <= MaxSessions

MaySend(r) ==
    CASE Route(r) = "issue" ->
            /\ Consumed(authStore, r.ip, now) <= AUTH_POINTS + MaxOver
            /\ RefererTrusted(r.referer) => UuidLeft
      [] Route(r) = "proxy" ->
            Consumed(globalStore, r.ip, now) <= GLOBAL_POINTS + MaxOver
      [] OTHER -> TRUE

\* A client sends a request of one of the shapes R.
Varied(S, R) ==
    \E s \in S, r \in R : Quiet /\ MaySend(r) /\ Send(s, r)

\* A client that does not repeat requests sends one of the shapes R.
Few(S, R) ==
    \E s \in S, r \in R :
        /\ Consumed(globalStore, r.ip, now) < MaxCalls
        /\ Consumed(authStore, r.ip, now) < MaxCalls
        /\ Route(r) = "issue" => UuidLeft
        /\ Send(s, r)

\* A client sends its last request again (requests that carry a signature
\* are not repeated: the signature covers the timestamp).
Repeat(S) ==
    \E s \in S :
        /\ slots[s].kind # "none"
        /\ ~slots[s].req.sigPresent
        /\ MaySend(slots[s].req)
        /\ Send(s, slots[s].req)

\* A client sends its last request again if it is of one of the shapes R.
RepeatOf(S, R) ==
    \E s \in S :
        /\ slots[s].kind # "none"
        /\ slots[s].req \in R
        /\ MaySend(slots[s].req)
        /\ Send(s, slots[s].req)

\* A client whose auth budget is used up asks for a session again.
Pressed(S, R) ==
    \E s \in S, r \in R :
        /\ Consumed(authStore, r.ip, now) >= AUTH_POINTS
        /\ MaySend(r)
        /\ Send(s, r)

\* A client whose global budget is used up sends a request of one of the
\* shapes R.
Spent(S, R) ==
    \E s \in S, r \in R :
        /\ Consumed(globalStore, r.ip, now) >= GLOBAL_POINTS
        /\ MaySend(r)
        /\ Send(s, r)

\* The same, by a client that is so far the only one to have called.
RepeatAlone(S) ==
    \E s \in S :
        /\ slots[s].kind # "none"
        /\ ~slots[s].req.sigPresent
        /\ Alone(slots[s].req.ip)
        /\ MaySend(slots[s].req)
        /\ Send(s, slots[s].req)

\* The credentials a client can present: none, one with a signature not made
\* with JWT_SECRET, one of an unregistered session, or one it was handed.
Forged == Cred("u1", 0, SESSION_TOKEN_EXPIRY * 1000, "forged")
Creds == {NoToken, Forged, StaleCred} \cup Minted

\* The signature a client computes over the request it sends with credential c
Signed(ip, c, ts) ==
    LET r == ProxyReq(ip, Bearer(c), NoToken, FALSE, <<>>, ts)
    IN  HmacSHA256(r.ts \o r.url \o r.body \o <<c.sid>>, SHARED_SECRET)

----------------------------------------------------------------------------
(* Specification of the gate: one request at a time, two clients, every   *)
(* shape of credential, with and without a request signature.              *)

GateReqs ==
    {ProxyReq(ip, Bearer(c), NoToken, FALSE, <<>>, TS) : ip \in IPs, c \in Creds}
    \cup {ProxyReq(ip, Bearer(c), NoToken, TRUE, BAD_SIG, TS) : ip \in IPs, c \in Minted}
    \cup {ProxyReq(ip, Bearer(c), NoToken, TRUE, Signed(ip, c, TS), TS) : ip \in IPs, c \in Minted}
GateIssues == {IssueReq(ip, GOOD_REFERER, "ua1") : ip \in IPs}
GateHoneypots == {HoneypotReq("GET", ip, "/api/data/raw", NoToken) : ip \in IPs}

Next ==
    \/ Varied({1}, GateIssues)
    \/ Varied({1}, GateReqs)
    \/ Varied({1}, GateHoneypots)
    \/ RepeatAlone({1})
    \/ Resume({1})

InitGate ==
    /\ JWT_SECRET = "JWT_SECRET"
    /\ API_SECRET \in {SHARED_SECRET, UNDEFINED}
    /\ Start

Spec == InitGate /\ [][Next]_vars

----------------------------------------------------------------------------
(* Specification of credential theft: two clients that ask for sessions,   *)
(* one of which presents the credentials handed out so far, its own and    *)
(* the other's.                                                            *)

TheftReqs == {ProxyReq("ipB", Bearer(c), NoToken, FALSE, <<>>, TS) : c \in Minted}
NextTheft ==
    \/ Varied({1}, GateIssues)
    \/ Varied({1}, TheftReqs)
    \/ Spent({1}, TheftReqs)
    \/ Repeat({1})
    \/ Resume({1})

SpecTheft == Init /\ [][NextTheft]_vars

----------------------------------------------------------------------------
(* Specification of the honeypots: two clients, every honeypot path under  *)
(* several methods, OPTIONS among them, without a credential, one path     *)
(* with a credential and with a body that is not JSON; protected requests  *)
(* carry no credential or the client's own.                                *)

METHODS == {"GET", "POST", "DELETE", "OPTIONS"}
OwnCreds(ip) ==
    {c \in Minted : c.sid \in DOMAIN activeTokens /\ activeTokens[c.sid].clientIp = ip}
HoneypotReqs ==
    {HoneypotReq(m, ip, e, NoToken) : m \in METHODS, ip \in IPs, e \in HONEYPOT_ENDPOINTS}
    \cup {HoneypotReq(m, ip, "/api/data/raw", c) :
             m \in {"DELETE", "OPTIONS"}, ip \in IPs, c \in Minted}
    \cup {[HoneypotReq(m, ip, "/api/system/status", NoToken) EXCEPT !.body = MALFORMED] :
             m \in {"POST", "OPTIONS"}, ip \in IPs}
OwnReqs ==
    UNION {{ProxyReq(ip, Bearer(c), NoToken, FALSE, <<>>, TS) : c \in {NoToken} \cup OwnCreds(ip)} :
              ip \in IPs}

NextHoneypot ==
    \/ Varied({1}, GateIssues)
    \/ Varied({1}, OwnReqs)
    \/ Varied({1}, HoneypotReqs)
    \/ RepeatAlone({1})
    \/ Resume({1})

SpecHoneypot == Init /\ [][NextHoneypot]_vars

----------------------------------------------------------------------------
(* Specification of the request signature: the server started with or     *)
(* without API_SECRET; one client, its credentials, every timestamp below, *)
(* and as X-Request-Signature nothing, an empty value, a value that is no  *)
(* HMAC, or the HMAC of any of these requests under the shared secret.     *)

SigTimestamps == {<<>>, TS, <<"1", "2">>}
SigValues == {<<>>, BAD_SIG} \cup {Signed("ipA", c, ts) : c \in Minted, ts \in SigTimestamps}
SigReqs ==
    {ProxyReq("ipA", Bearer(c), NoToken, FALSE, <<>>, ts) : c \in Minted, ts \in SigTimestamps}
    \cup {ProxyReq("ipA", Bearer(c), NoToken, TRUE, sig, ts) :
            c \in Minted, sig \in SigValues, ts \in SigTimestamps}

NextSig ==
    \/ Few({1}, {IssueReq("ipA", GOOD_REFERER, "ua1")})
    \/ Few({1}, SigReqs)
    \/ Resume({1})

InitSig ==
    /\ JWT_SECRET = "JWT_SECRET"
    /\ API_SECRET \in {SHARED_SECRET, UNDEFINED}
    /\ Start

SpecSig == InitSig /\ [][NextSig]_vars

----------------------------------------------------------------------------
(* Specification of the budgets: one client with two requests in flight,   *)
(* asking for sessions (with and without the trusted referrer) and making  *)
(* protected requests with its credentials.                                *)

BudgetIssues == {IssueReq("ipA", ref, "ua1") : ref \in {GOOD_REFERER, <<>>}}
BudgetReqs == {ProxyReq("ipA", Bearer(c), NoToken, FALSE, <<>>, TS) : c \in Minted}

\* two requests in flight together
Pair == {1, 2}

NextBudget ==
    \/ Varied(Slots, BudgetIssues)
    \/ Varied(Slots, BudgetReqs)
    \/ Repeat(Pair)
    \/ Resume(Slots)

SpecBudget == Init /\ [][NextBudget]_vars

----------------------------------------------------------------------------
(* Specification of the blocklist under concurrency: a client with         *)
(* requests in flight together that asks for sessions, presents them and   *)
(* hits a honeypot, while the cleanup fires until the sessions of the      *)
(* start have been removed.  The client calls at the start and after that  *)
(* cleanup; its requests stay in flight in between.  The clock stands     *)
(* still between the two clock reads of an issuance.                       *)

\* the first cleanup that removes a session created at time 0
FirstReap == ((SESSION_TOKEN_EXPIRY * 1000) \div CLEANUP_INTERVAL_MS + 1) * CLEANUP_INTERVAL_MS
\* the times of the first cleanup, of the last one that finds no session
\* older than the TTL and of the first that finds the sessions of the start
\* older, when they run on time
BlockTimes == {CLEANUP_INTERVAL_MS, FirstReap - CLEANUP_INTERVAL_MS, FirstReap}
Calling == now \in {0, FirstReap}
\* the clock moves to a time of T, and not between the two clock reads of an
\* issuance
Steady(T) == ~Signing /\ \E t \in T : Tick(t)
\* the cleanup runs, its timer armed again from the time at which it runs
Sweep == Cleanup(now)
\* the cleanup runs, its timer armed again from the time at which it was due
\* or from the time at which it runs
HeldUp == \E armedAt \in {nextSweep, now} : Cleanup(armedAt)
BlockHoneypots == {HoneypotReq("GET", "ipB", "/api/v1/internal/config", NoToken)}
BlockIssues == {IssueReq("ipB", GOOD_REFERER, "ua1")}

NextBlock ==
    \/ Calling /\ Few(Pair, BlockIssues)
    \/ Calling /\ Few(Pair, TheftReqs)
    \/ Calling /\ Few(Pair, BlockHoneypots)
    \/ Resume(Pair)
    \/ Steady(BlockTimes)
    \/ Sweep

SpecBlock == Init /\ [][NextBlock]_vars

----------------------------------------------------------------------------
(* Specification of the global window: one client that gets its sessions  *)
(* at the start and makes protected requests with and without them, those  *)
(* without over and over, two in flight, at times around the start and the *)
(* end of a window.                                                        *)

WINDOW_MS == GLOBAL_DURATION * 1000
WindowTimes == {500, WINDOW_MS - 1, WINDOW_MS, WINDOW_MS + 499, WINDOW_MS + 500}
WindowIssues == {IssueReq("ipA", GOOD_REFERER, "ua1")}
WindowReqs == {ProxyReq("ipA", Bearer(c), NoToken, FALSE, <<>>, TS) : c \in Minted}
Tokenless == {ProxyReq("ipA", NoHeader, NoToken, FALSE, <<>>, TS)}

NextWindow ==
    \/ now = 0 /\ Varied({1}, WindowIssues)
    \/ now = 0 /\ Varied({1}, WindowReqs)
    \/ Varied(Pair, Tokenless)
    \/ RepeatOf(Pair, Tokenless)
    \/ Resume(Pair)
    \/ \E t \in WindowTimes : Tick(t)

SpecWindow == Init /\ [][NextWindow]_vars

----------------------------------------------------------------------------
(* Specification of the auth tier: one client asking for sessions, with    *)
(* and without the trusted referrer, in requests that have its address as  *)
(* req.ip and in requests that have none, over and over, and presenting    *)
(* them at the start, at times around the end of the window and of the     *)
(* block.                                                                  *)

AUTH_WINDOW_MS == AUTH_DURATION * 1000
AUTH_BLOCK_MS == AUTH_BLOCK * 1000
AuthTimes == {500, AUTH_WINDOW_MS - 1, AUTH_WINDOW_MS, AUTH_BLOCK_MS - 1, AUTH_BLOCK_MS,
              AUTH_BLOCK_MS + 500, AUTH_WINDOW_MS + AUTH_BLOCK_MS - 1,
              AUTH_WINDOW_MS + AUTH_BLOCK_MS}
AuthIssues == {IssueReq("ipA", ref, "ua1") : ref \in {GOOD_REFERER, <<>>}}
AuthAnons == {IssueReq(UNDEFINED, ref, "ua1") : ref \in {GOOD_REFERER, <<>>}}
AuthReqs == {ProxyReq("ipA", Bearer(c), NoToken, FALSE, <<>>, TS) : c \in Minted}

NextAuth ==
    \/ Varied({1}, AuthIssues)
    \/ Pressed({1}, AuthIssues)
    \/ Few({1}, AuthAnons)
    \/ now = 0 /\ Few({1}, AuthReqs)
    \/ RepeatOf({1}, AuthIssues)
    \/ Resume({1})
    \/ Steady(AuthTimes)

SpecAuth == Init /\ [][NextAuth]_vars

----------------------------------------------------------------------------
(* Specification of expiry: one client that asks for sessions at the start *)
(* and around the end of the first ones' lifetime, and presents them then  *)
(* and after the cleanup that removes them.  The clock moves between the   *)
(* two clock reads of an issuance.                                         *)

TTL_MS == SESSION_TOKEN_EXPIRY * 1000
ExpiryTimes == {500, TTL_MS - 1, TTL_MS, TTL_MS + 500, FirstReap}
ExpiryCalling == now < CLEANUP_INTERVAL_MS \/ now >= TTL_MS - 1
ExpiryIssues == {IssueReq("ipA", GOOD_REFERER, "ua1")}
ExpiryReqs == {ProxyReq("ipA", Bearer(c), NoToken, FALSE, <<>>, TS) : c \in Minted}

NextExpiry ==
    \/ ExpiryCalling /\ Few({1}, ExpiryIssues)
    \/ ExpiryCalling /\ Few({1}, ExpiryReqs)
    \/ Resume({1})
    \/ \E t \in ExpiryTimes : Tick(t)
    \/ Sweep

SpecExpiry == Init /\ [][NextExpiry]_vars

----------------------------------------------------------------------------
(* Readings of a slot *)

Finished(s) == slots[s].kind = "proxy" /\ slots[s].pc \in {"done", "admitted"}
Admitted(s) == slots[s].kind = "proxy" /\ slots[s].pc = "admitted"
Rejected(s, resp) == slots[s].kind = "proxy" /\ slots[s].pc = "done" /\ slots[s].resp = resp
LastStep(s) == slots[s].steps[Len(slots[s].steps)]
\* slot s takes the step that ends the run of checks started at the first await
Checks(s) == slots[s].pc = "awaitGlobal" /\ slots'[s].pc # "awaitGlobal"

GATE_ORDER == <<"global", "blocklist", "credential", "verify", "session", "fingerprint",
                "sessionLimit", "signature">>
GATE_FAILURE == <<RateLimited, Forbidden, Unauthenticated, InvalidToken, InvalidSession,
                  SecurityViolation, RateLimited, InvalidSignature>>

----------------------------------------------------------------------------
\* C1 as stated: the checks are made in the fixed order and a rejected
\* request carries the failure response of the last check made, which for
\* the request signature is InvalidSignature.
GateOrderAsStated ==
    \A s \in Slots : Finished(s) =>
        LET sl == slots[s]
            r == sl.req
            tok == TokenOf(r)
            n == Len(sl.steps)
            registered == JwtVerify(tok, now) /\ tok.sid \in DOMAIN activeTokens
        IN  /\ n \in 1..8
            /\ sl.steps = SubSeq(GATE_ORDER, 1, n)
            /\ sl.pc = "done" =>
                  /\ sl.resp = GATE_FAILURE[n]
                  /\ sl.sessionId = ""
                  /\ n = 2 => r.ip \in BLOCKED_IPS
                  /\ n = 3 => tok = NoToken
                  /\ n = 4 => tok # NoToken /\ ~JwtVerify(tok, now)
                  /\ n = 5 => JwtVerify(tok, now) /\ tok.sid \notin DOMAIN activeTokens
                  /\ n = 6 => registered /\ activeTokens[tok.sid].clientIp # r.ip
                  /\ n >= 7 => registered /\ activeTokens[tok.sid].clientIp = r.ip
                  /\ n = 8 => r.sigPresent /\ r.sig # ExpectedSignature(r, tok.sid)
            /\ sl.pc = "admitted" =>
                  /\ n = IF SignatureGiven(r) THEN 8 ELSE 7
                  /\ sl.resp = NoResp
                  /\ sl.sessionId = tok.sid
                  /\ registered /\ activeTokens[tok.sid].clientIp = r.ip
                  /\ SignatureGiven(r) => r.sig = ExpectedSignature(r, tok.sid)

\* C1, amended: every finished protected request made the gate's checks in
\* the fixed order global limiter, blocklist, credential presence, credential
\* verification, session lookup, fingerprint, per-session limiter, request
\* signature (the last only when a signature is given); a rejected request
\* carries the response of the last check made, which failed, all checks
\* before it having passed; an admitted one made every check, none failed,
\* and has the credential's sessionId bound.
\* When the server has no API secret, a request that gives a signature and
\* passed the first seven checks is answered Internal (500) at the eighth.
GateOrder ==
    \A s \in Slots : Finished(s) =>
        LET sl == slots[s]
            r == sl.req
            tok == TokenOf(r)
            n == Len(sl.steps)
            registered == JwtVerify(tok, now) /\ tok.sid \in DOMAIN activeTokens
        IN  /\ n \in 1..8
            /\ sl.steps = SubSeq(GATE_ORDER, 1, n)
            /\ sl.pc = "done" =>
                  /\ sl.resp = IF n = 8 /\ API_SECRET = UNDEFINED
                               THEN ServerError
                               ELSE GATE_FAILURE[n]
                  /\ sl.sessionId = ""
                  /\ n = 2 => r.ip \in BLOCKED_IPS
                  /\ n = 3 => tok = NoToken
                  /\ n = 4 => tok # NoToken /\ ~JwtVerify(tok, now)
                  /\ n = 5 => JwtVerify(tok, now) /\ tok.sid \notin DOMAIN activeTokens
                  /\ n = 6 => registered /\ activeTokens[tok.sid].clientIp # r.ip
                  /\ n >= 7 => registered /\ activeTokens[tok.sid].clientIp = r.ip
                  /\ n = 8 => /\ r.sigPresent /\ r.sig # <<>>
                              /\ \/ API_SECRET = UNDEFINED
                                 \/ r.sig # ExpectedSignature(r, tok.sid)
            /\ sl.pc = "admitted" =>
                  /\ n = IF SignatureGiven(r) THEN 8 ELSE 7
                  /\ sl.resp = NoResp
                  /\ sl.sessionId = tok.sid
                  /\ registered /\ activeTokens[tok.sid].clientIp = r.ip
                  /\ SignatureGiven(r) =>
                        API_SECRET # UNDEFINED /\ r.sig = ExpectedSignature(r, tok.sid)

\* A request was turned away by the per-session limiter, the seventh check.
GateOrderWitness ==
    \E s \in Slots : Rejected(s, RateLimited) /\ LastStep(s) = "sessionLimit"

\* The other outcomes of the gate, each reached as well.
GateOutcomes ==
    <<\E s \in Slots : Rejected(s, RateLimited) /\ LastStep(s) = "global",
      \E s \in Slots : Rejected(s, Forbidden),
      \E s \in Slots : Rejected(s, Unauthenticated),
      \E s \in Slots : Rejected(s, InvalidToken),
      \E s \in Slots : Rejected(s, InvalidSession),
      \E s \in Slots : Rejected(s, SecurityViolation),
      \E s \in Slots : Rejected(s, InvalidSignature),
      \E s \in Slots : Admitted(s) /\ LastStep(s) = "signature",
      \E s \in Slots : Admitted(s) /\ LastStep(s) = "sessionLimit">>

----------------------------------------------------------------------------
\* The request of slot s presents a verifiable credential of a registered
\* session whose recorded clientIp is not the request's IP.
Stolen(s) ==
    LET r == slots[s].req
        tok == TokenOf(r)
    IN  /\ JwtVerify(tok, now)
        /\ tok.sid \in DOMAIN activeTokens
        /\ activeTokens[tok.sid].clientIp # r.ip

\* C3 as stated: a request with a stolen credential, from an IP not yet
\* blocked, is answered SecurityViolation and its IP is blocked; every later
\* protected request from a blocked IP is answered Forbidden.
FingerprintBanAsStated ==
    [][\A s \in Slots : Checks(s) =>
          /\ (Stolen(s) /\ ~IsBlocked(slots[s].req.ip)) =>
                /\ slots'[s].pc = "done" /\ slots'[s].resp = SecurityViolation
                /\ slots[s].req.ip \in BLOCKED_IPS'
          /\ IsBlocked(slots[s].req.ip) =>
                slots'[s].pc = "done" /\ slots'[s].resp = Forbidden]_vars

\* C3, amended: a request with a stolen credential that the global limiter
\* lets through, from an IP not yet blocked, is answered SecurityViolation
\* and its IP is blocked; one that the global limiter turns away is answered
\* RateLimited and blocks no IP; a later protected request from a blocked IP
\* is answered Forbidden when the global limiter lets it through and
\* RateLimited when it does not, and is never admitted.
FingerprintBan ==
    [][\A s \in Slots : Checks(s) =>
          /\ (slots[s].settled /\ Stolen(s) /\ ~IsBlocked(slots[s].req.ip)) =>
                /\ slots'[s].pc = "done" /\ slots'[s].resp = SecurityViolation
                /\ slots[s].req.ip \in BLOCKED_IPS'
          /\ (~slots[s].settled /\ Stolen(s)) =>
                /\ slots'[s].pc = "done" /\ slots'[s].resp = RateLimited
                /\ BLOCKED_IPS' = BLOCKED_IPS
          /\ IsBlocked(slots[s].req.ip) =>
                /\ slots'[s].pc = "done"
                /\ slots'[s].resp = IF slots[s].settled THEN Forbidden ELSE RateLimited]_vars

\* A client was blocked for presenting another client's credential, and its
\* next request, with a credential issued to itself, was answered Forbidden.
FingerprintBanWitness ==
    \E s \in Slots :
        /\ Rejected(s, Forbidden)
        /\ TokenOf(slots[s].req) \in Minted
        /\ TokenOf(slots[s].req).sid \in DOMAIN activeTokens
        /\ activeTokens[TokenOf(slots[s].req).sid].clientIp = slots[s].req.ip
        /\ \A t \in Slots : slots[t].kind # "honeypot"
        /\ \E sid \in DOMAIN activeTokens : activeTokens[sid].clientIp # slots[s].req.ip

\* A request with another client's credential was turned away by the global
\* limiter, its IP not blocked; one from an IP already blocked was answered
\* Forbidden.
FingerprintBanCases ==
    <<\E s \in Slots :
          /\ Rejected(s, RateLimited)
          /\ TokenOf(slots[s].req).sid \in DOMAIN activeTokens
          /\ activeTokens[TokenOf(slots[s].req).sid].clientIp # slots[s].req.ip
          /\ slots[s].req.ip \notin BLOCKED_IPS,
      \E s \in Slots :
          /\ Rejected(s, Forbidden)
          /\ TokenOf(slots[s].req).sid \in DOMAIN activeTokens
          /\ activeTokens[TokenOf(slots[s].req).sid].clientIp # slots[s].req.ip>>

----------------------------------------------------------------------------
\* slot s holds a request answered by a honeypot's handler
Trapped(s) == slots[s].kind = "honeypot"

\* slot s holds an answered request to a honeypot path
Baited(s) ==
    /\ slots[s].pc = "done"
    /\ slots[s].req.url \in {<<e>> : e \in HONEYPOT_ENDPOINTS}

\* slot s takes a new request in this step, which a middleware ends
Ends(s) == slots'[s] # slots[s] /\ slots'[s].kind = "middleware"

\* C4 as stated: a request to a honeypot path, whatever its method, IP and
\* credential, is answered 200 with the generic body and its IP is blocked;
\* every later protected request from a blocked IP is answered Forbidden.
HoneypotBanAsStated ==
    /\ [](\A s \in Slots : Baited(s) =>
            /\ slots[s].resp = Resp(200, "ok")
            /\ slots[s].req.ip \in BLOCKED_IPS)
    /\ [][\A s \in Slots : (Checks(s) /\ IsBlocked(slots[s].req.ip)) =>
            slots'[s].pc = "done" /\ slots'[s].resp = Forbidden]_vars

\* C4, amended: a request to a honeypot path reaches the honeypot's handler
\* exactly when its method is not OPTIONS and the body parser does not
\* reject its body; then, whatever its IP and credential, it is answered 200
\* with the generic body and its IP is blocked.  An OPTIONS request is
\* answered 204 by the CORS middleware and a request with a malformed JSON
\* body 400 by the body parser, and neither blocks an IP.  A later protected
\* request from a blocked IP is answered Forbidden when the global limiter
\* lets it through and RateLimited when it does not; it is never admitted.
HoneypotBan ==
    /\ [](\A s \in Slots : Baited(s) =>
            /\ Trapped(s) <=> (slots[s].req.method # "OPTIONS" /\ slots[s].req.body # MALFORMED)
            /\ Trapped(s) =>
                  /\ slots[s].resp = Resp(200, "ok")
                  /\ slots[s].req.ip \in BLOCKED_IPS
            /\ ~Trapped(s) =>
                  slots[s].resp = IF slots[s].req.body = MALFORMED THEN BadRequest ELSE NoContent)
    /\ [][\A s \in Slots : Ends(s) => BLOCKED_IPS' = BLOCKED_IPS]_vars
    /\ [][\A s \in Slots : (Checks(s) /\ IsBlocked(slots[s].req.ip)) =>
            /\ slots'[s].pc = "done"
            /\ slots'[s].resp = IF slots[s].settled THEN Forbidden ELSE RateLimited]_vars

\* A client that holds a credential of its own hit a honeypot and its next
\* protected request, credential and all, was answered Forbidden.
HoneypotBanWitness ==
    \E s \in Slots :
        /\ Rejected(s, Forbidden)
        /\ TokenOf(slots[s].req) \in OwnCreds(slots[s].req.ip)

\* Honeypot requests of every method, with and without a credential, were
\* answered; an OPTIONS request to a honeypot path was answered 204 and one
\* with a malformed body 400, the caller's IP in neither case blocked.
HoneypotShapes ==
    <<\E s \in Slots : /\ Baited(s) /\ slots[s].req.method = "OPTIONS"
                       /\ slots[s].resp = NoContent /\ slots[s].req.ip \notin BLOCKED_IPS,
      \E s \in Slots : /\ Baited(s) /\ slots[s].req.method = "POST"
                       /\ slots[s].resp = BadRequest /\ slots[s].req.ip \notin BLOCKED_IPS,
      \E s \in Slots : Trapped(s) /\ slots[s].req.method = "DELETE" /\ TokenOf(slots[s].req) \in Minted,
      \E s \in Slots : Trapped(s) /\ slots[s].req.method = "GET" /\ TokenOf(slots[s].req) = NoToken,
      \E s \in Slots : Trapped(s) /\ slots[s].req.method = "POST"
                          /\ slots[s].req.url = <<"/api/system/status">>>>

----------------------------------------------------------------------------
\* C2: a protected request whose blocklist check is made when its IP is in
\* the blocklist is not admitted and goes no further than that check: no
\* point of a session is consumed for it.
BlockedNeverAdmitted ==
    [][\A s \in Slots : (Checks(s) /\ slots[s].req.ip \in BLOCKED_IPS) =>
          /\ slots'[s].pc = "done"
          /\ slots'[s].resp \in {Forbidden, RateLimited}
          /\ sessionLimiters' = sessionLimiters]_vars

\* A request of a blocked client was answered Forbidden while another
\* request of the same client, begun before, was still in flight.
BlockedNeverAdmittedWitness ==
    \E s, t \in Slots :
        /\ Rejected(s, Forbidden)
        /\ slots[t].kind = "proxy" /\ slots[t].pc = "awaitSession"
        /\ slots[t].req.ip = slots[s].req.ip

----------------------------------------------------------------------------
\* C6: on no key do more consume calls resolve within one window than the
\* tier's budget: 100 per IP on the global tier, 5 per IP on the auth tier,
\* 50 per session on the per-session tier.
BudgetNeverExceeded ==
    /\ \A ip \in DOMAIN granted.global : granted.global[ip] <= GLOBAL_POINTS
    /\ \A ip \in DOMAIN granted.auth : granted.auth[ip] <= AUTH_POINTS
    /\ \A sid \in DOMAIN granted.session : granted.session[sid] <= SESSION_POINTS

\* Two requests on one key in flight together, the budget of the key used
\* up, one of the two resolved and the other rejected.
BudgetNeverExceededWitness ==
    /\ slots[1].pc = "awaitGlobal" /\ slots[2].pc = "awaitGlobal"
    /\ slots[1].settled /\ ~slots[2].settled
    /\ "ipA" \in DOMAIN granted.global /\ granted.global["ipA"] = GLOBAL_POINTS

\* The same on the other two tiers.
BudgetTiers ==
    <<\E sid \in DOMAIN granted.session :
          /\ granted.session[sid] = SESSION_POINTS
          /\ slots[1].pc = "awaitSession" /\ slots[2].pc = "awaitSession"
          /\ slots[1].settled # slots[2].settled,
      /\ "ipA" \in DOMAIN granted.auth /\ granted.auth["ipA"] = AUTH_POINTS
      /\ slots[1].pc = "awaitAuth" /\ slots[2].pc = "awaitAuth"
      /\ slots[1].settled # slots[2].settled>>

----------------------------------------------------------------------------
\* slot s holds a finished request that passed the checks before the
\* signature check
PassedSeven(s) ==
    /\ Finished(s)
    /\ Len(slots[s].steps) >= 7
    /\ ~(slots[s].pc = "done" /\ LastStep(s) = "sessionLimit")

\* HMAC-SHA256 of timestamp + path + body + sessionId under the API secret
RequestHmac(r, sid) == HmacSHA256(r.ts \o r.url \o r.body \o <<sid>>, API_SECRET)

\* C10 as stated: past the first seven checks, a request whose
\* X-Request-Signature header is present is admitted exactly when the value
\* is the HMAC and is answered InvalidSignature otherwise; one without the
\* header is admitted.
SignatureDecidesAsStated ==
    \A s \in Slots : PassedSeven(s) =>
        LET r == slots[s].req
            match == r.sig = RequestHmac(r, TokenOf(r).sid)
        IN  IF r.sigPresent
            THEN /\ Admitted(s) <=> match
                 /\ ~match => Rejected(s, InvalidSignature)
            ELSE Admitted(s)

\* C10, amended: the same, with a header of empty value treated as a
\* missing header, and with every request whose header has a value
\* answered Internal (500) when the server has no API secret.
SignatureDecides ==
    \A s \in Slots : PassedSeven(s) =>
        LET r == slots[s].req
            match == r.sig = RequestHmac(r, TokenOf(r).sid)
        IN  IF r.sigPresent /\ r.sig # <<>>
            THEN IF API_SECRET = UNDEFINED
                 THEN Rejected(s, ServerError)
                 ELSE /\ Admitted(s) <=> match
                      /\ ~match => Rejected(s, InvalidSignature)
            ELSE Admitted(s)

\* A request signed for the second session, with a two-character timestamp,
\* was admitted on its signature.
SignatureDecidesWitness ==
    \E s \in Slots :
        /\ Admitted(s)
        /\ slots[s].req.sigPresent
        /\ slots[s].req.ts = <<"1", "2">>
        /\ slots[s].sessionId = "u2"

\* Signatures of another timestamp and of another session were refused, an
\* empty one and a missing one let through.
SignatureCases ==
    <<\E s \in Slots : /\ Rejected(s, InvalidSignature)
                       /\ slots[s].req.sig = Signed("ipA", TokenOf(slots[s].req), <<>>),
      \E s \in Slots : /\ Rejected(s, InvalidSignature)
                       /\ \E c \in Minted : slots[s].req.sig = Signed("ipA", c, slots[s].req.ts),
      \E s \in Slots : Admitted(s) /\ slots[s].req.sigPresent /\ slots[s].req.sig = <<>>,
      \E s \in Slots : Admitted(s) /\ ~slots[s].req.sigPresent,
      \E s \in Slots : /\ Rejected(s, ServerError)
                       /\ slots[s].req.sig = Signed("ipA", TokenOf(slots[s].req), slots[s].req.ts),
      \E s \in Slots : /\ API_SECRET = UNDEFINED
                       /\ Admitted(s) /\ slots[s].req.sigPresent /\ slots[s].req.sig = <<>>>>

----------------------------------------------------------------------------
\* slot s begins a handler whose first step consumes a point
Begins(s, pc) == slots[s].pc # pc /\ slots'[s].pc = pc

\* C5: the global limiter's window of an IP opens with the IP's first
\* protected request and lasts 60 seconds; the first 100 protected requests
\* of the IP in the window pass the global step, every further one in the
\* window is answered RateLimited (429) without any other check; a request
\* after the end of the window opens a new one.
GlobalWindow ==
    [][\A s \in Slots :
          /\ Begins(s, "awaitGlobal") =>
                LET ip == slots'[s].req.ip
                    n == Consumed(globalStore, ip, now)
                IN  /\ slots'[s].settled = (n < GLOBAL_POINTS)
                    /\ Consumed(globalStore', ip, now) = n + 1
                    /\ globalStore'[ip].expiresAt =
                          IF n = 0 THEN now + GLOBAL_DURATION * 1000
                          ELSE globalStore[ip].expiresAt
          /\ Checks(s) =>
                IF slots[s].settled
                THEN Len(slots'[s].steps) >= 2
                ELSE /\ slots'[s].pc = "done"
                     /\ slots'[s].resp = RateLimited
                     /\ slots'[s].steps = <<"global">>]_vars

\* The 101st request of a window, made in its last millisecond, was
\* answered RateLimited.
GlobalWindowWitness ==
    \E s \in Slots :
        /\ Rejected(s, RateLimited)
        /\ slots[s].steps = <<"global">>
        /\ "ipA" \in DOMAIN globalStore
        /\ globalStore["ipA"].value = GLOBAL_POINTS + 1
        /\ globalStore["ipA"].expiresAt - now = 1

\* After a request was answered RateLimited, one made when the window was
\* over passed the global step, in a window of its own; the 100th request of
\* a window passed.
GlobalWindowCases ==
    <<\E s, t \in Slots :
          /\ Rejected(s, RateLimited) /\ slots[s].steps = <<"global">>
          /\ slots[t].kind = "proxy" /\ Len(slots[t].steps) >= 2
          /\ "ipA" \in DOMAIN globalStore
          /\ globalStore["ipA"].value = 1
          /\ now >= WINDOW_MS,
      \E s \in Slots :
          /\ slots[s].kind = "proxy" /\ slots[s].pc = "awaitGlobal" /\ slots[s].settled
          /\ "ipA" \in DOMAIN globalStore
          /\ globalStore["ipA"].value = GLOBAL_POINTS>>

----------------------------------------------------------------------------
TooManyRequests == Resp(429, "Too many requests, please wait")

\* C7: the first 5 issue requests of an IP in a 60-second window of the auth
\* limiter pass it; the 6th in the window fails and blocks the IP for 300
\* seconds from then, a block that later requests do not extend; every issue
\* request of the IP in the window or the block fails; a failing request is
\* answered RateLimited (429) and adds neither a session record nor a
\* per-session limiter.
AuthBlock ==
    [][\A s \in Slots :
          /\ Begins(s, "awaitAuth") =>
                LET ip == slots'[s].req.ip
                    n == Consumed(authStore, ip, now)
                IN  /\ slots'[s].settled = (n < AUTH_POINTS)
                    /\ Consumed(authStore', ip, now) = n + 1
                    /\ authStore'[ip].expiresAt =
                          IF n = 0 THEN now + AUTH_DURATION * 1000
                          ELSE IF n = AUTH_POINTS THEN now + AUTH_BLOCK * 1000
                          ELSE authStore[ip].expiresAt
          /\ (slots[s].pc = "awaitAuth" /\ ~slots[s].settled /\ slots'[s].pc # "awaitAuth") =>
                /\ slots'[s].pc = "done"
                /\ slots'[s].resp = TooManyRequests
                /\ activeTokens' = activeTokens
                /\ sessionLimiters' = sessionLimiters]_vars

\* An issue request with the trusted referrer was answered RateLimited in
\* the last millisecond of a block, when the 60 seconds of the window in
\* which the 5 requests were made had long passed.
AuthBlockWitness ==
    \E s \in Slots :
        /\ slots[s].kind = "issue" /\ slots[s].pc = "done"
        /\ slots[s].resp = TooManyRequests
        /\ RefererTrusted(slots[s].req.referer)
        /\ "ipA" \in DOMAIN authStore
        /\ authStore["ipA"].value = AUTH_POINTS + 2
        /\ authStore["ipA"].expiresAt - now = 1

\* A session was handed out again when the block was over; the 5th request
\* of a window was served; a request that has no req.ip was served while the
\* client's address was blocked, and consumed nothing.
AuthBlockCases ==
    <<\E s \in Slots :
          /\ slots[s].kind = "issue" /\ slots[s].pc = "done" /\ slots[s].resp.status = 200
          /\ "ipA" \in DOMAIN authStore /\ authStore["ipA"].value = 1
          /\ now >= AUTH_BLOCK_MS,
      \E s \in Slots :
          /\ slots[s].kind = "issue" /\ slots[s].pc = "awaitAuth" /\ slots[s].settled
          /\ "ipA" \in DOMAIN authStore /\ authStore["ipA"].value = AUTH_POINTS,
      \E s \in Slots :
          /\ slots[s].kind = "issue" /\ slots[s].pc = "done" /\ slots[s].resp.status = 200
          /\ slots[s].req.ip = UNDEFINED /\ slots[s].steps = <<>>
          /\ DOMAIN authStore = {"ipA"} /\ authStore["ipA"].value > AUTH_POINTS>>

----------------------------------------------------------------------------
\* slot s makes the checks after the global limiter on a credential handed
\* out by the issuer, from an IP that is not blocked
Verifies(s) ==
    /\ Checks(s)
    /\ slots[s].settled
    /\ ~IsBlocked(slots[s].req.ip)
    /\ TokenOf(slots[s].req) \in Minted

\* slot s fails credential verification, the 4th check, in this step
FailsVerification(s) ==
    /\ slots'[s].pc = "done"
    /\ slots'[s].resp = InvalidToken
    /\ slots'[s].steps = SubSeq(GATE_ORDER, 1, 4)

\* C8 as stated: a credential issued at t0, the time its session record
\* holds, passes verification before t0 + TTL and fails it from t0 + TTL on.
ExpiresAtTtlAsStated ==
    [][\A s \in Slots : Verifies(s) =>
          (FailsVerification(s) <=> now >= minted[TokenOf(slots[s].req)] + TTL_MS)]_vars

\* C8: a credential whose signing read the clock at t0, so that its iat is
\* floor(t0 / 1 s), passes verification at every time before the whole second
\* iat + TTL and fails it with InvalidToken at every time from then on, that
\* is from up to 999 ms before t0 + TTL; t0 is at or before the createdAt of
\* its session record, so the credential never verifies at or after
\* createdAt + TTL.  This holds whether or not the session record is still in
\* the registry; a request that passes goes on to the session lookup.
ExpiresAtTtl ==
    [][\A s \in Slots : Verifies(s) =>
          LET tok == TokenOf(slots[s].req)
              expiry == (tok.iat + SESSION_TOKEN_EXPIRY) * 1000
          IN  /\ FailsVerification(s) <=> now >= expiry
              /\ now < expiry => Len(slots'[s].steps) >= 5
              /\ tok.iat * 1000 <= minted[tok]
              /\ expiry <= minted[tok] + TTL_MS]_vars

\* A credential handed out at 500 ms was refused at TTL, 500 ms before its
\* age reached the TTL, its session record still in the registry.
ExpiresAtTtlWitness ==
    \E s \in Slots :
        /\ Rejected(s, InvalidToken)
        /\ TokenOf(slots[s].req) \in Minted
        /\ minted[TokenOf(slots[s].req)] = 500
        /\ now = TTL_MS
        /\ TokenOf(slots[s].req).sid \in DOMAIN activeTokens

\* A credential was admitted in the last millisecond before its expiry;
\* one signed in a second before the second of its createdAt was admitted;
\* one was refused after its session record had been removed; one whose
\* handler was held up between the signing and the storing of the record,
\* from the first second to the last millisecond of the TTL, was refused
\* 1 ms after its createdAt.
ExpiresAtTtlCases ==
    <<\E s \in Slots :
          /\ Admitted(s) /\ now = TTL_MS - 1,
      \E s \in Slots :
          /\ Admitted(s)
          /\ TokenOf(slots[s].req) \in Minted
          /\ TokenOf(slots[s].req).iat < minted[TokenOf(slots[s].req)] \div 1000,
      \E s \in Slots :
          /\ Rejected(s, InvalidToken)
          /\ TokenOf(slots[s].req) \in Minted
          /\ TokenOf(slots[s].req).sid \notin DOMAIN activeTokens,
      \E s \in Slots :
          /\ Rejected(s, InvalidToken)
          /\ TokenOf(slots[s].req) \in Minted
          /\ TokenOf(slots[s].req).iat = 0
          /\ minted[TokenOf(slots[s].req)] = TTL_MS - 1
          /\ now = TTL_MS>>

----------------------------------------------------------------------------
\* slot s makes the checks after the global limiter on a credential handed
\* out by the issuer whose session record the cleanup has removed
Reaped(s) == Verifies(s) /\ TokenOf(slots[s].req).sid \notin DOMAIN activeTokens

\* C9 as stated: the request is answered InvalidSession.
ReapedSessionAsStated ==
    [][\A s \in Slots : Reaped(s) =>
          slots'[s].pc = "done" /\ slots'[s].resp = InvalidSession]_vars

\* C9: after a session's age has passed the TTL and a cleanup has removed
\* its record, a protected request presenting its credential (from the
\* recorded IP, global budget available, IP not blocked) is answered
\* InvalidToken (401) by credential verification, the credential having
\* expired before the record was removed; the session lookup is not made.
ReapedSession ==
    [][\A s \in Slots : Reaped(s) => FailsVerification(s)]_vars

\* The cleanup of 75 minutes has removed the record of a session of the
\* start, and a request presenting its credential was refused.
ReapedSessionWitness ==
    \E s \in Slots :
        /\ Rejected(s, InvalidToken)
        /\ TokenOf(slots[s].req) \in Minted
        /\ minted[TokenOf(slots[s].req)] <= 500
        /\ TokenOf(slots[s].req).sid \notin DOMAIN activeTokens
        /\ TokenOf(slots[s].req).sid \notin DOMAIN sessionLimiters
        /\ now = FirstReap /\ nextSweep > now

----------------------------------------------------------------------------
InvalidReferrer == Resp(403, "Invalid referrer")

\* slot s holds an issue request that is answered in this step
Answers(s) ==
    /\ slots'[s] # slots[s]
    /\ slots'[s].kind = "issue" /\ slots'[s].pc = "done"

\* no piece of the referrer is the trusted origin
LacksOrigin(referer) == FRONTEND_DOMAIN \notin {referer[i] : i \in 1..Len(referer)}

\* C11 as stated: an issue request whose referrer lacks the trusted origin
\* is answered InvalidReferrer whatever the auth limiter says.
UntrustedReferrerAsStated ==
    [][\A s \in Slots : (Answers(s) /\ LacksOrigin(slots'[s].req.referer)) =>
          /\ slots'[s].resp = InvalidReferrer
          /\ activeTokens' = activeTokens]_vars

\* C11: an issue request whose referrer lacks the trusted origin is answered
\* InvalidReferrer (403) when the auth limiter lets it through and
\* RateLimited (429) when it does not, the limiter being consumed before the
\* referrer is looked at; either way no session record and no per-session
\* limiter is added and no credential is returned.
UntrustedReferrer ==
    [][\A s \in Slots : (Answers(s) /\ LacksOrigin(slots'[s].req.referer)) =>
          /\ slots'[s].pc = "done"
          /\ slots'[s].resp = IF slots'[s].settled THEN InvalidReferrer ELSE TooManyRequests
          /\ activeTokens' = activeTokens
          /\ sessionLimiters' = sessionLimiters
          /\ minted' = minted]_vars

\* The 5th request of a window, without a referrer, was answered
\* InvalidReferrer.
UntrustedReferrerWitness ==
    \E s \in Slots :
        /\ slots[s].kind = "issue" /\ slots[s].pc = "done"
        /\ slots[s].resp = InvalidReferrer
        /\ slots[s].req.referer = <<>>
        /\ "ipA" \in DOMAIN authStore /\ authStore["ipA"].value = AUTH_POINTS

\* A request without a referrer and without req.ip was answered
\* InvalidReferrer while the auth limiter had the client's address blocked.
UntrustedReferrerNoAddress ==
    \E s \in Slots :
        /\ slots[s].kind = "issue" /\ slots[s].pc = "done"
        /\ slots[s].resp = InvalidReferrer
        /\ slots[s].req.ip = UNDEFINED
        /\ "ipA" \in DOMAIN authStore /\ authStore["ipA"].value > AUTH_POINTS

----------------------------------------------------------------------------
\* slot s holds an issue request that is answered with a credential in this
\* step
Issues(s) == Answers(s) /\ slots'[s].resp.status = 200

\* the record and the limiter of session sid are added in this step, under a
\* sessionId no session had before, and nothing else changes in the two maps
AddsSession(s, sid) ==
    /\ sid \notin DOMAIN activeTokens
    /\ sid \notin {c.sid : c \in Minted}
    /\ DOMAIN activeTokens' = DOMAIN activeTokens \cup {sid}
    /\ \A old \in DOMAIN activeTokens : activeTokens'[old] = activeTokens[old]
    /\ activeTokens'[sid] = [token |-> slots'[s].resp.token, created |-> now,
                             clientIp |-> slots'[s].req.ip, userAgent |-> slots'[s].req.ua]
    /\ DOMAIN sessionLimiters' = DOMAIN sessionLimiters \cup {sid}
    /\ \A old \in DOMAIN sessionLimiters : sessionLimiters'[old] = sessionLimiters[old]
    /\ sessionLimiters'[sid] = Empty

\* C12 as stated: createdAt is the issue time and the credential's expiry is
\* createdAt + 3600 s.
SessionAddedAsStated ==
    [][\A s \in Slots : Issues(s) =>
          LET tok == slots'[s].resp.token
          IN  /\ AddsSession(s, tok.sid)
              /\ tok.exp * 1000 = activeTokens'[tok.sid].created + TTL_MS]_vars

\* C12: a successful issuance adds exactly one session record, under a
\* sessionId never used before, with clientIp the requesting IP, createdAt
\* the time of issue and a credential that encodes the sessionId, and a
\* fresh per-session limiter for that sessionId; no existing record or
\* limiter is touched.  The credential's expiry is the whole second
\* iat + 3600 s, where iat is floor(ts / 1 s) for the time ts that the signing
\* read, at or before createdAt: it is at most createdAt + 3600 s.
SessionAdded ==
    [][\A s \in Slots : Issues(s) =>
          LET tok == slots'[s].resp.token
              created == activeTokens'[tok.sid].created
          IN  /\ AddsSession(s, tok.sid)
              /\ tok.exp = tok.iat + SESSION_TOKEN_EXPIRY
              /\ tok.iat \in 0..(created \div 1000)
              /\ tok.exp * 1000 <= created + TTL_MS]_vars

\* A second session was added after the cleanup had removed the first.
SessionAddedWitness ==
    \E s \in Slots :
        /\ slots[s].kind = "issue" /\ slots[s].pc = "done" /\ slots[s].resp.status = 200
        /\ slots[s].resp.token.sid = "u2"
        /\ DOMAIN activeTokens = {"u2"}
        /\ DOMAIN sessionLimiters = {"u2"}
        /\ activeTokens["u2"].created = FirstReap
        /\ Cardinality(Minted) = 2

\* A session was created on a whole second with a credential signed in the
\* second before: its expiry is a full second less than createdAt + 3600 s.
\* One was signed and stored at 500 ms.  One was signed in the first second
\* and stored in the last millisecond of the TTL, the handler held up in
\* between: its credential expires 1 ms after its createdAt.
SessionAddedCases ==
    <<\E sid \in DOMAIN activeTokens :
          /\ activeTokens[sid].created = TTL_MS
          /\ activeTokens[sid].token.exp * 1000 = activeTokens[sid].created + TTL_MS - 1000,
      \E sid \in DOMAIN activeTokens :
          /\ activeTokens[sid].created = 500
          /\ activeTokens[sid].token.exp * 1000 = activeTokens[sid].created + TTL_MS - 500,
      \E sid \in DOMAIN activeTokens :
          /\ activeTokens[sid].created = TTL_MS - 1
          /\ activeTokens[sid].token.exp * 1000 = activeTokens[sid].created + 1>>

----------------------------------------------------------------------------
(* Specification of the failures: the server started with or without       *)
(* JWT_SECRET; one client asks for sessions with and without the trusted   *)
(* referrer, over and over, also in requests that have no req.ip, and      *)
(* presents credentials of every kind, two requests in flight; a second    *)
(* client presents the first one's.                                        *)

FailureIssues == {IssueReq("ipA", ref, "ua1") : ref \in {GOOD_REFERER, <<>>}}
\* requests for a session that have no req.ip and end in an error
FailureAnons ==
    {IssueReq(UNDEFINED, ref, "ua1") :
        ref \in IF CanSign THEN {<<>>} ELSE {GOOD_REFERER, <<>>}}
FailureReqs ==
    {ProxyReq("ipA", Bearer(c), NoToken, FALSE, <<>>, TS) : c \in Creds}
    \cup {ProxyReq("ipB", Bearer(c), NoToken, FALSE, <<>>, TS) : c \in Minted}
    \cup {ProxyReq("ipA", Bearer(c), NoToken, TRUE, BAD_SIG, TS) : c \in Minted}

InitFailures ==
    /\ JWT_SECRET \in {"JWT_SECRET", UNDEFINED}
    /\ API_SECRET = SHARED_SECRET
    /\ Start

NextFailures ==
    \/ Few({1}, FailureIssues)
    \/ Few({1}, FailureAnons)
    \/ Few(Pair, FailureReqs)
    \/ RepeatOf({1}, FailureIssues)
    \/ Resume(Pair)

SpecFailures == InitFailures /\ [][NextFailures]_vars

----------------------------------------------------------------------------

\* The failure kinds with the responses that report them.
FAILURES ==
    {<<"RateLimited", RateLimited>>, <<"RateLimited", TooManyRequests>>,
     <<"Forbidden", Forbidden>>, <<"Unauthenticated", Unauthenticated>>,
     <<"InvalidToken", InvalidToken>>, <<"InvalidSession", InvalidSession>>,
     <<"SecurityViolation", SecurityViolation>>, <<"InvalidSignature", InvalidSignature>>,
     <<"InvalidReferrer", InvalidReferrer>>, <<"Internal", ServerError>>}

\* slot s holds an issue or protected request that was answered with an error
Failed(s) ==
    /\ slots[s].kind \in {"issue", "proxy"}
    /\ slots[s].pc = "done"
    /\ slots[s].resp.status # 200

\* the failure kinds a response reports
KindsOf(resp) == {f[1] : f \in {g \in FAILURES : g[2] = resp}}

\* C13 as stated: failures of different kinds have different statuses.
DistinctStatusesAsStated ==
    \A s, t \in Slots :
        (Failed(s) /\ Failed(t) /\ KindsOf(slots[s].resp) # KindsOf(slots[t].resp)) =>
            slots[s].resp.status # slots[t].resp.status

\* C13: every failure of the gate and the issuer is reported with the status
\* and error message of exactly one failure kind; the statuses are 429 for
\* RateLimited, 401 for Unauthenticated, InvalidToken and InvalidSession, 403
\* for Forbidden, SecurityViolation, InvalidSignature and InvalidReferrer,
\* and 500 for Internal, so that kinds sharing a status are told apart by
\* the error message only.
DistinctFailures ==
    \A s \in Slots : Failed(s) =>
        /\ Cardinality(KindsOf(slots[s].resp)) = 1
        /\ \A k \in KindsOf(slots[s].resp) :
              slots[s].resp.status =
                  CASE k = "RateLimited" -> 429
                    [] k \in {"Unauthenticated", "InvalidToken", "InvalidSession"} -> 401
                    [] k \in {"Forbidden", "SecurityViolation", "InvalidSignature",
                              "InvalidReferrer"} -> 403
                    [] k = "Internal" -> 500
        /\ \A t \in Slots :
              (Failed(t) /\ KindsOf(slots[t].resp) # KindsOf(slots[s].resp)) =>
                  slots[t].resp.body # slots[s].resp.body

\* An InvalidSession and an InvalidToken failure, both 401, side by side.
DistinctFailuresWitness ==
    \E s, t \in Slots :
        /\ Failed(s) /\ slots[s].resp = InvalidSession
        /\ Failed(t) /\ slots[t].resp = InvalidToken

\* Every failure kind was reported.
FailureKinds ==
    [k \in {f[1] : f \in FAILURES} |-> \E s \in Slots : Failed(s) /\ k \in KindsOf(slots[s].resp)]

----------------------------------------------------------------------------
(* Specification of the credential's source: one client with a session,    *)
(* presenting as the word after "Bearer" nothing, a forged credential or   *)
(* its own, and as session_token cookie nothing or its own; the            *)
(* Authorization header may be absent, and may be empty.                   *)

SourceIssues == {IssueReq("ipA", GOOD_REFERER, "ua1")}
SourceReqs ==
    {ProxyReq("ipA", Bearer(b), c, FALSE, <<>>, TS) :
        b \in {NoToken, Forged} \cup Minted, c \in {NoToken} \cup Minted}
    \cup {ProxyReq("ipA", h, c, FALSE, <<>>, TS) :
             h \in {NoHeader, EmptyHeader}, c \in {NoToken} \cup Minted}

NextSource ==
    \/ Few({1}, SourceIssues)
    \/ Few({1}, SourceReqs)
    \/ Resume({1})

SpecSource == Init /\ [][NextSource]_vars

----------------------------------------------------------------------------
\* slot s makes the checks after the global limiter, from an IP that is not
\* blocked
Extracts(s) == Checks(s) /\ slots[s].settled /\ ~IsBlocked(slots[s].req.ip)

\* slot s is admitted in this step
Admits(s) == slots[s].pc # "admitted" /\ slots'[s].pc = "admitted"

\* C14 as stated: the bearer token when there is one, else the cookie;
\* Unauthenticated exactly when there is neither.
CredentialSourceAsStated ==
    [][\A s \in Slots :
          LET r == slots[s].req
              bearer == r.authorization.token
              chosen == IF bearer # NoToken THEN bearer ELSE r.cookie
          IN  /\ Extracts(s) =>
                    (slots'[s].resp = Unauthenticated <=> (bearer = NoToken /\ r.cookie = NoToken))
              /\ Admits(s) => slots'[s].sessionId = chosen.sid]_vars

\* C14: the credential is the word after the first space of the
\* Authorization header when that header is present with a value that is not
\* empty, and the session_token cookie when the header is absent or empty;
\* the request is rejected with Unauthenticated exactly when the source so
\* chosen holds no credential, so a request with a valid cookie and a
\* non-empty Authorization header without a token is rejected, and one with
\* a valid cookie and no or an empty Authorization header goes on to
\* verification with the cookie's credential.
CredentialSource ==
    [][\A s \in Slots :
          LET r == slots[s].req
              chosen == IF r.authorization \in {NoHeader, EmptyHeader}
                        THEN r.cookie
                        ELSE r.authorization.token
          IN  /\ Extracts(s) =>
                    /\ slots'[s].resp = Unauthenticated <=> chosen = NoToken
                    /\ chosen = NoToken => slots'[s].steps = SubSeq(GATE_ORDER, 1, 3)
                    /\ chosen # NoToken => Len(slots'[s].steps) >= 4
                    /\ chosen = Forged => slots'[s].resp = InvalidToken
              /\ Admits(s) => slots'[s].sessionId = chosen.sid]_vars

\* A request with no Authorization header and the session's cookie was
\* admitted under the cookie's session.
CredentialSourceWitness ==
    \E s \in Slots :
        /\ Admitted(s)
        /\ slots[s].req.authorization = NoHeader
        /\ slots[s].req.cookie \in Minted
        /\ slots[s].sessionId = slots[s].req.cookie.sid

\* A header without a token hid a valid cookie; a forged bearer token hid a
\* valid cookie; a bearer token was used before the cookie of another
\* session; a request without header and cookie was rejected; a request with
\* an empty Authorization header was admitted under its cookie's session, and
\* one without a cookie was rejected.
CredentialSourceCases ==
    <<\E s \in Slots : /\ Rejected(s, Unauthenticated)
                       /\ slots[s].req.authorization = Bearer(NoToken)
                       /\ slots[s].req.cookie \in Minted,
      \E s \in Slots : /\ Rejected(s, InvalidToken)
                       /\ slots[s].req.authorization = Bearer(Forged)
                       /\ slots[s].req.cookie \in Minted,
      \E s \in Slots : /\ Admitted(s)
                       /\ slots[s].req.authorization.token \in Minted
                       /\ slots[s].req.cookie \in Minted
                       /\ slots[s].req.authorization.token # slots[s].req.cookie
                       /\ slots[s].sessionId = slots[s].req.authorization.token.sid,
      \E s \in Slots : /\ Rejected(s, Unauthenticated)
                       /\ slots[s].req.authorization = NoHeader,
      \E s \in Slots : /\ Admitted(s)
                       /\ slots[s].req.authorization = EmptyHeader
                       /\ slots[s].req.cookie \in Minted
                       /\ slots[s].sessionId = slots[s].req.cookie.sid,
      \E s \in Slots : /\ Rejected(s, Unauthenticated)
                       /\ slots[s].req.authorization = EmptyHeader>>

----------------------------------------------------------------------------
(* Specification of the blocklist's growth: one client asks for sessions,  *)
(* and presents them at the start, a second presents them too, both hit a  *)
(* honeypot, two requests in flight,                                       *)
(* while the cleanup fires until the sessions of the start are removed.    *)
(* The clients call at the start and after that cleanup.  A cleanup that  *)
(* was held up is followed by the next one less than an interval later by  *)
(* Date.now(); the clock stands still between the two clock reads of an    *)
(* issuance.                                                               *)

AppendTimes == BlockTimes
AppendIssues == {IssueReq("ipA", GOOD_REFERER, "ua1")}
AppendReqs == {ProxyReq("ipA", Bearer(c), NoToken, FALSE, <<>>, TS) : c \in Minted}
AppendHoneypots == {HoneypotReq("POST", ip, "/api/system/status", NoToken) : ip \in IPs}

NextAppend ==
    \/ Calling /\ Few({1}, AppendIssues)
    \/ now = 0 /\ Few({1}, AppendReqs)
    \/ Calling /\ Few(Pair, TheftReqs)
    \/ Calling /\ Few(Pair, AppendHoneypots)
    \/ Resume(Pair)
    \/ Steady(AppendTimes)
    \/ HeldUp

SpecAppend == Init /\ [][NextAppend]_vars

----------------------------------------------------------------------------
\* slot s receives a honeypot request in this step
Hit(s) == slots'[s].kind = "honeypot" /\ slots'[s] # slots[s]

\* slot s is answered SecurityViolation in this step
Mismatches(s) == Checks(s) /\ slots'[s].resp = SecurityViolation

\* C15: the blocklist only grows: no step of an issuance, a protected
\* request, a honeypot hit or a cleanup removes a member; a step that adds
\* one is a honeypot hit or a fingerprint mismatch and adds the caller's IP
\* and nothing else; adding a member again leaves the set as it is.
BlocklistAppendOnly ==
    [][/\ BLOCKED_IPS \subseteq BLOCKED_IPS'
       /\ BLOCKED_IPS' # BLOCKED_IPS =>
             \E s \in Slots :
                 /\ Hit(s) \/ Mismatches(s)
                 /\ BLOCKED_IPS' = BLOCKED_IPS \cup {slots'[s].req.ip}
       /\ \A s \in Slots :
             (Hit(s) /\ slots'[s].req.ip \in BLOCKED_IPS) =>
                 BLOCKED_IPS' = BLOCKED_IPS]_vars

\* After the cleanup that removed the sessions, both clients are still
\* blocked, one for a mismatch and one for a honeypot hit.
BlocklistAppendOnlyWitness ==
    /\ BLOCKED_IPS = IPs
    /\ now = FirstReap /\ nextSweep > now
    /\ activeTokens = Empty /\ Minted # {}
    /\ \E s, t \in Slots :
          /\ Rejected(s, SecurityViolation) /\ slots[s].req.ip = "ipB"
          /\ slots[t].kind = "honeypot" /\ slots[t].req.ip = "ipA"

----------------------------------------------------------------------------
\* the cleanup interval fires in this step
Sweeps == nextSweep' # nextSweep

\* the sessions whose age at the present time is over the TTL
Overdue == {sid \in DOMAIN activeTokens : now - activeTokens[sid].created > TTL_MS}

\* C16: a cleanup removes from the session records exactly those whose age
\* (now - created) is over the TTL, with their per-session limiters, and
\* leaves every record of age at most the TTL and its limiter as they were;
\* no other step removes or changes a session record or drops its limiter.
ReaperFrame ==
    [][/\ Sweeps =>
             /\ DOMAIN activeTokens' = DOMAIN activeTokens \ Overdue
             /\ DOMAIN sessionLimiters' = DOMAIN sessionLimiters \ Overdue
             /\ \A sid \in DOMAIN activeTokens \ Overdue :
                   /\ activeTokens'[sid] = activeTokens[sid]
                   /\ sessionLimiters'[sid] = sessionLimiters[sid]
       /\ ~Sweeps =>
             \A sid \in DOMAIN activeTokens :
                 /\ sid \in DOMAIN activeTokens'
                 /\ activeTokens'[sid] = activeTokens[sid]
                 /\ sid \in DOMAIN sessionLimiters']_vars

\* The cleanup after the TTL has removed the session of the start and kept
\* the one created at the TTL.
ReaperFrameWitness ==
    /\ now = FirstReap /\ nextSweep > now
    /\ Cardinality(Minted) = 2
    /\ DOMAIN activeTokens = {"u2"}
    /\ DOMAIN sessionLimiters = {"u2"}
    /\ activeTokens["u2"].created = TTL_MS

\* The cleanup at the TTL has kept the session of the start, whose age is
\* the TTL.
ReaperFrameKept ==
    /\ now = TTL_MS /\ nextSweep > now
    /\ "u1" \in DOMAIN activeTokens /\ activeTokens["u1"].created = 0
    /\ "u1" \in DOMAIN sessionLimiters

----------------------------------------------------------------------------
(* Specification of the user agents: one client asks for a session with    *)
(* one of two user agents and presents the sessions with either user       *)
(* agent, a second client presents them too, two requests in flight.       *)

AGENTS == {"ua1", "ua2"}
AgentIssues == {IssueReq("ipA", GOOD_REFERER, ua) : ua \in AGENTS}
AgentReqs ==
    {[ProxyReq("ipA", Bearer(c), NoToken, FALSE, <<>>, TS) EXCEPT !.ua = ua] :
        c \in Minted, ua \in AGENTS} \cup TheftReqs

NextAgent ==
    \/ Few({1}, AgentIssues)
    \/ Few(Pair, AgentReqs)
    \/ Resume(Pair)

SpecAgent == Init /\ [][NextAgent]_vars

----------------------------------------------------------------------------
\* slot s holds a request whose credential verifies and whose session was
\* recorded for the request's own IP
FromOwner(s) ==
    LET r == slots[s].req
        tok == TokenOf(r)
    IN  /\ Verifies(s)
        /\ tok.sid \in DOMAIN activeTokens
        /\ activeTokens[tok.sid].clientIp = r.ip

\* C17: the fingerprint check compares the client's IP only: a protected
\* request with a valid credential sent from the IP recorded for its session
\* passes the check, is not answered SecurityViolation and does not get its
\* IP blocked, whatever its user agent, the one recorded at issuance or not.
AgentNotCompared ==
    [][\A s \in Slots : FromOwner(s) =>
          /\ slots'[s].resp # SecurityViolation
          /\ slots'[s].pc \in {"awaitSession", "admitted"}
          /\ BLOCKED_IPS' = BLOCKED_IPS]_vars

\* The owner of a session was admitted with a user agent that is not the
\* one recorded for the session.
AgentNotComparedWitness ==
    \E s \in Slots :
        /\ Admitted(s)
        /\ slots[s].sessionId \in DOMAIN activeTokens
        /\ activeTokens[slots[s].sessionId].clientIp = slots[s].req.ip
        /\ activeTokens[slots[s].sessionId].userAgent # slots[s].req.ua
        /\ slots[s].req.ip \notin BLOCKED_IPS

----------------------------------------------------------------------------
(* Specification of the services: one client asks for a session and asks   *)
(* for each service, known or not, with its session, and for an unknown    *)
(* one with a forged credential; a second client presents the session for  *)
(* an unknown service; two requests in flight.                             *)

SERVICES == ALLOWED_SERVICES \cup {"maps"}
ServiceIssues == {IssueReq("ipA", GOOD_REFERER, "ua1")}
ServiceReqs ==
    {[ProxyReq("ipA", Bearer(c), NoToken, FALSE, <<>>, TS) EXCEPT !.url = ProxyUrl(svc)] :
        c \in Minted, svc \in SERVICES}
    \cup {[ProxyReq("ipA", Bearer(Forged), NoToken, FALSE, <<>>, TS) EXCEPT !.url = ProxyUrl("maps")]}
    \cup {[ProxyReq("ipB", Bearer(c), NoToken, FALSE, <<>>, TS) EXCEPT !.url = ProxyUrl("maps")] :
             c \in Minted}

NextService ==
    \/ Few({1}, ServiceIssues)
    \/ Few(Pair, ServiceReqs)
    \/ Resume(Pair)

SpecService == Init /\ [][NextService]_vars

----------------------------------------------------------------------------
\* C18: a request to POST /api/proxy/:service that the gate admitted and
\* whose service is none of weather, direction, search is answered
\* InvalidService (400) and no backend is called for it; an admitted request
\* for one of the three has the backend of its service called; a request the
\* gate has not admitted has reached neither the service check nor a backend.
UnknownService ==
    \A s \in Slots :
        LET sl == slots[s]
            service == sl.req.url[2]
        IN  /\ (Admitted(s) /\ service \notin {"weather", "direction", "search"}) =>
                  sl.proxy.resp = InvalidService /\ sl.proxy.backend = ""
            /\ (Admitted(s) /\ service \in {"weather", "direction", "search"}) =>
                  sl.proxy.resp = NoResp /\ sl.proxy.backend = service
            /\ ~Admitted(s) => sl.proxy = NoProxy

\* One admitted request for an unknown service was answered 400, while a
\* request for the same service that the gate rejected got the gate's answer.
UnknownServiceWitness ==
    \E s, t \in Slots :
        /\ Admitted(s) /\ ServiceOf(slots[s].req) = "maps"
        /\ slots[s].proxy = [resp |-> InvalidService, backend |-> ""]
        /\ Rejected(t, InvalidToken) /\ ServiceOf(slots[t].req) = "maps"
        /\ slots[t].proxy = NoProxy

\* The backend of each of the three services was called for an admitted
\* request, and a request for an unknown service was rejected at the
\* fingerprint check.
UnknownServiceBackends ==
    <<\E s \in Slots : Admitted(s) /\ slots[s].proxy.backend = "weather",
      \E s \in Slots : Admitted(s) /\ slots[s].proxy.backend = "direction",
      \E s \in Slots : Admitted(s) /\ slots[s].proxy.backend = "search",
      \E s \in Slots : Rejected(s, SecurityViolation) /\ ServiceOf(slots[s].req) = "maps">>

----------------------------------------------------------------------------
\* slot s holds an issue request that is answered with an error in this step
IssueFails(s) == Answers(s) /\ slots'[s].resp.status # 200

\* C19: whenever a session-issue request ends in an error, InvalidReferrer
\* (403), RateLimited (429) or Internal (500, the signing of the credential
\* failing), the session records and the per-session limiters are the same
\* as before the request, and the answer carries no credential.
IssueErrorFrame ==
    [][\A s \in Slots : IssueFails(s) =>
          /\ slots'[s].resp \in {InvalidReferrer, TooManyRequests, ServerError}
          /\ slots'[s].resp.token = NoToken
          /\ activeTokens' = activeTokens
          /\ sessionLimiters' = sessionLimiters
          /\ minted' = minted]_vars

\* A request for a session was turned away by the auth limiter after a
\* session had been issued, and the session is still the only one.
IssueErrorFrameWitness ==
    \E s \in Slots :
        /\ slots[s].kind = "issue" /\ slots[s].pc = "done"
        /\ slots[s].resp = TooManyRequests
        /\ Cardinality(DOMAIN activeTokens) = 1
        /\ DOMAIN sessionLimiters = DOMAIN activeTokens
        /\ Cardinality(Minted) = 1

\* The other two errors: the signing failed and nothing was recorded; the
\* referrer was refused after a session had been issued.
IssueErrorFrameCases ==
    <<\E s \in Slots :
          /\ slots[s].kind = "issue" /\ slots[s].resp = ServerError
          /\ activeTokens = Empty /\ sessionLimiters = Empty /\ Minted = {},
      \E s \in Slots :
          /\ slots[s].kind = "issue" /\ slots[s].resp = InvalidReferrer
          /\ Cardinality(DOMAIN activeTokens) = 1 /\ Cardinality(Minted) = 1>>

----------------------------------------------------------------------------
(* Specification of the block periods: one client asks for sessions with   *)
(* and without the trusted referrer and presents a session, one request at *)
(* a time, sending its last request again and again, while the clock moves *)
(* to the ends of the 60 s window, of the 60 s block of a session and of   *)
(* the 300 s block of the auth limiter.                                    *)

SESSION_BLOCK_MS == SESSION_BLOCK * 1000
PeriodTimes == {500, SESSION_BLOCK_MS - 1, SESSION_BLOCK_MS, SESSION_BLOCK_MS + 500,
                AUTH_BLOCK_MS - 1, AUTH_BLOCK_MS, AUTH_BLOCK_MS + 500}
PeriodIssues == {IssueReq("ipA", ref, "ua1") : ref \in {GOOD_REFERER, <<>>}}
PeriodReqs == {ProxyReq("ipA", Bearer(c), NoToken, FALSE, <<>>, TS) : c \in Minted}

NextPeriod ==
    \/ now = 0 /\ Few({1}, PeriodIssues)
    \/ now = 0 /\ Few({1}, PeriodReqs)
    \/ RepeatOf({1}, PeriodIssues)
    \/ RepeatOf({1}, PeriodReqs)
    \/ Resume({1})
    \/ \E t \in PeriodTimes : Tick(t)

SpecPeriod == Init /\ [][NextPeriod]_vars

----------------------------------------------------------------------------
\* The consume calls of the two tiers with a block duration made in this
\* step: the slot, the key, the budget, the block duration, and the key's
\* storage before and after the call.
BlockingCalls ==
    {[key |-> slots'[s].req.ip, points |-> AUTH_POINTS, block |-> AUTH_BLOCK,
      after |-> authStore', slot |-> s, before |-> authStore] :
        s \in {t \in Slots : Begins(t, "awaitAuth")}}
    \cup
    {[key |-> TokenOf(slots[s].req).sid, points |-> SESSION_POINTS, block |-> SESSION_BLOCK,
      after |-> sessionLimiters'[TokenOf(slots[s].req).sid],
      slot |-> s,
      before |-> sessionLimiters[TokenOf(slots[s].req).sid]] :
        s \in {t \in Slots : Begins(t, "awaitSession")}}

\* the key of call c is in its block period: more points than the budget
\* are consumed and the record has not run out
InBlock(c) == c.key \in DOMAIN c.before
              /\ c.before[c.key].expiresAt > now
              /\ c.before[c.key].value > c.points

\* C20 as stated: a failing call in the block period does not increase the
\* consumed-points counter.
BlockPeriodAsStated ==
    [][\A c \in BlockingCalls : InBlock(c) =>
          /\ ~slots'[c.slot].settled
          /\ c.after[c.key].value = c.before[c.key].value
          /\ c.after[c.key].expiresAt = c.before[c.key].expiresAt]_vars

\* C20: once a key of the auth tier or of a per-session limiter has consumed
\* more points than its budget, every consume call for it fails until the
\* block ends, and such a call leaves the time at which the block ends as it
\* is; it does add its point to the key's consumed-points counter, which
\* keeps counting during the block.
BlockPeriod ==
    [][\A c \in BlockingCalls : InBlock(c) =>
          /\ ~slots'[c.slot].settled
          /\ c.after[c.key].value = c.before[c.key].value + 1
          /\ c.after[c.key].expiresAt = c.before[c.key].expiresAt]_vars

\* A protected request was turned away by its session's limiter a second
\* time in the last millisecond of the block, which began half a second
\* after the start; the counter stands two over the budget.
BlockPeriodWitness ==
    \E s \in Slots :
        /\ Rejected(s, RateLimited) /\ LastStep(s) = "sessionLimit"
        /\ LET sid == TokenOf(slots[s].req).sid
           IN  /\ sid \in DOMAIN sessionLimiters /\ sid \in DOMAIN sessionLimiters[sid]
               /\ sessionLimiters[sid][sid].value = SESSION_POINTS + 2
               /\ sessionLimiters[sid][sid].expiresAt = 500 + SESSION_BLOCK_MS
        /\ now = SESSION_BLOCK_MS

\* The same on the auth tier, in the last millisecond of its block; and a
\* request served by each tier once its block was over.
BlockPeriodCases ==
    <<\E s \in Slots :
          /\ slots[s].kind = "issue" /\ slots[s].resp = TooManyRequests
          /\ "ipA" \in DOMAIN authStore
          /\ authStore["ipA"].value = AUTH_POINTS + 2
          /\ authStore["ipA"].expiresAt = AUTH_BLOCK_MS
          /\ now = AUTH_BLOCK_MS - 1,
      \E s \in Slots :
          /\ slots[s].kind = "issue" /\ slots[s].pc = "done" /\ slots[s].resp.status # 429
          /\ now = AUTH_BLOCK_MS
          /\ "ipA" \in DOMAIN authStore /\ authStore["ipA"].value = 1,
      \E s \in Slots :
          /\ Admitted(s) /\ now = SESSION_BLOCK_MS + 500
          /\ slots[s].sessionId \in DOMAIN sessionLimiters
          /\ slots[s].sessionId \in DOMAIN sessionLimiters[slots[s].sessionId]
          /\ sessionLimiters[slots[s].sessionId][slots[s].sessionId].value = 1>>

----------------------------------------------------------------------------
(* Specification of the races: one client asks for sessions and presents   *)
(* them, an issuance and a protected request in flight together, each      *)
(* stopped at its awaits, while the clock moves to the last millisecond of *)
(* the first credentials and over the cleanups up to the one that removes  *)
(* their sessions.  Requests stay in flight while time passes and the      *)
(* cleanup runs.                                                           *)

RaceTimes == {TTL_MS - 1} \cup BlockTimes
RaceCalling == now = 0 \/ now >= TTL_MS - 1
RaceIssues == {IssueReq("ipA", GOOD_REFERER, "ua1")}
RaceReqs == {ProxyReq("ipA", Bearer(c), NoToken, FALSE, <<>>, TS) : c \in Minted \cup {StaleCred}}

NextRace ==
    \/ RaceCalling /\ Few({1}, RaceIssues)
    \/ RaceCalling /\ Few({2}, RaceReqs)
    \/ Resume(Pair)
    \/ \E t \in RaceTimes : Tick(t)
    \/ Sweep

SpecRace == Init /\ [][NextRace]_vars

----------------------------------------------------------------------------
\* slot s makes the session lookup in this step: the checks before it pass
Looks(s) ==
    /\ Checks(s)
    /\ slots[s].settled
    /\ slots[s].req.ip \notin BLOCKED_IPS
    /\ TokenOf(slots[s].req) # NoToken
    /\ JwtVerify(TokenOf(slots[s].req), now)

\* a session record with every field set
Complete(info) ==
    /\ info.token \in Minted
    /\ info.created \in 0..now
    /\ info.clientIp \in IPs
    /\ info.userAgent # ""

\* C21: in every interleaving of issuances, gate executions and cleanups, a
\* gate execution that makes the session lookup either finds no record and
\* answers InvalidSession, or finds a record with all its fields set and
\* then, unless the fingerprint check rejects it, finds the session's
\* limiter and consumes from it: the per-session limit is not skipped.
LookupSeesWhole ==
    [][\A s \in Slots : Looks(s) =>
          LET sid == TokenOf(slots[s].req).sid
          IN  IF sid \notin DOMAIN activeTokens
              THEN slots'[s].pc = "done" /\ slots'[s].resp = InvalidSession
              ELSE /\ Complete(activeTokens[sid])
                   /\ \/ slots'[s].pc = "done" /\ slots'[s].resp = SecurityViolation
                      \/ /\ slots'[s].pc = "awaitSession"
                         /\ LastStep(s)' = "sessionLimit"
                         /\ sid \in DOMAIN sessionLimiters
                         /\ Consumed(sessionLimiters'[sid], sid, now)
                               = Consumed(sessionLimiters[sid], sid, now) + 1]_vars

\* A request made the lookup and waits for its session's limiter while a
\* session is being issued, and the cleanup has removed the session the
\* request found.
LookupSeesWholeWitness ==
    \E s, t \in Slots :
        /\ slots[s].kind = "proxy" /\ slots[s].pc = "awaitSession"
        /\ slots[t].kind = "issue" /\ slots[t].pc = "awaitAuth"
        /\ now = FirstReap /\ nextSweep > now
        /\ Cardinality(Minted) = 1 /\ activeTokens = Empty

\* Requests in flight over a cleanup: one that waited for the global limiter
\* while its session was removed is answered InvalidToken, its credential
\* having expired before; one that waited for its session's limiter is
\* admitted.
LookupSeesWholeRaces ==
    <<\E s \in Slots :
          /\ Rejected(s, InvalidToken) /\ TokenOf(slots[s].req) \in Minted
          /\ minted[TokenOf(slots[s].req)] = 0 /\ now = FirstReap /\ nextSweep > now,
      \E s \in Slots :
          /\ Admitted(s) /\ slots[s].sessionId \notin DOMAIN activeTokens
          /\ now = FirstReap,
      \E s \in Slots : Rejected(s, InvalidSession)>>

----------------------------------------------------------------------------
(* Specification of the reaper that keeps firing at its fixed interval:    *)
(* one client asks for sessions before the second cleanup and presents     *)
(* them once the first credentials have expired, one request at a time.    *)
(* Every cleanup runs exactly one interval after the one before: the clock *)
(* does not pass the time of the next cleanup before it has run, and the   *)
(* cleanup does not run before that time.  A handler that has signed a     *)
(* credential goes on to store the record: the code from the one to the    *)
(* other is synchronous.                                                   *)

\* the cleanups of the interval, up to the one after the first that removes
\* a session of the start, and a time between the start and the first
ReaperTimes == {500} \cup {k * CLEANUP_INTERVAL_MS : k \in 1..(FirstReap \div CLEANUP_INTERVAL_MS + 1)}

\* the cleanup runs at its fixed interval: neither early nor late
OnTime == now = nextSweep

NextReaper ==
    \/ now <= CLEANUP_INTERVAL_MS /\ Few({1}, ExpiryIssues)
    \/ now >= TTL_MS /\ Few({1}, ExpiryReqs)
    \/ Resume({1})
    \/ \E t \in ReaperTimes : t <= nextSweep /\ Tick(t)
    \/ OnTime /\ Sweep

SpecReaper ==
    /\ Init /\ [][NextReaper]_vars
    /\ WF_vars(\E t \in ReaperTimes : t <= nextSweep /\ Tick(t))
    /\ WF_vars(OnTime /\ Sweep)
    /\ WF_vars(IssueStore(1))

----------------------------------------------------------------------------
\* the sessions that are removed in this step
Removed == DOMAIN activeTokens \ DOMAIN activeTokens'

\* C22: with the cleanup firing at its fixed interval of 15 minutes, every
\* session record and its per-session limiter are removed in the end, no
\* later than the TTL plus one cleanup interval after the record's creation
\* (no record in the registry is older than that), and no record is removed
\* before its age is over the TTL; the limiter goes in the same step as the
\* record.  The removal in the end is checked of the sessions created up to
\* the first cleanup, whose removal falls within the times of ReaperTimes.
ReapedInTime ==
    /\ [](\A sid \in DOMAIN activeTokens :
             now - activeTokens[sid].created <= TTL_MS + CLEANUP_INTERVAL_MS)
    /\ [][/\ \A sid \in Removed :
                /\ now - activeTokens[sid].created > TTL_MS
                /\ sid \notin DOMAIN sessionLimiters'
          /\ DOMAIN sessionLimiters' \subseteq DOMAIN activeTokens']_vars
    /\ \A i \in 1..MaxSessions :
          (UuidPool[i] \in DOMAIN activeTokens
             /\ activeTokens[UuidPool[i]].created <= CLEANUP_INTERVAL_MS)
          ~> (UuidPool[i] \notin DOMAIN activeTokens
                /\ UuidPool[i] \notin DOMAIN sessionLimiters)

\* The session created at the start lived through the cleanup at the TTL,
\* its age not over the TTL, and was removed with its limiter by the next
\* one, exactly the TTL plus one interval after its creation.
ReapedInTimeWitness ==
    /\ now = TTL_MS + CLEANUP_INTERVAL_MS
    /\ nextSweep = now + CLEANUP_INTERVAL_MS
    /\ \E c \in Minted :
          /\ minted[c] = 0
          /\ c.sid \notin DOMAIN activeTokens
          /\ c.sid \notin DOMAIN sessionLimiters
    /\ \A sid \in DOMAIN activeTokens : activeTokens[sid].created > 0

\* The cleanup at the TTL has run and the session of the start is there; a
\* session created at the first cleanup was removed by the cleanup one
\* interval after the one that removed the sessions of the start.
ReapedInTimeCases ==
    <<  /\ now = TTL_MS /\ nextSweep = TTL_MS + CLEANUP_INTERVAL_MS
        /\ \E sid \in DOMAIN activeTokens : activeTokens[sid].created = 0,
        /\ now = FirstReap + CLEANUP_INTERVAL_MS /\ nextSweep > now
        /\ \E c \in Minted : minted[c] = CLEANUP_INTERVAL_MS
        /\ activeTokens = Empty /\ sessionLimiters = Empty>>

----------------------------------------------------------------------------
\* C23: in every reachable state, after any sequence of issuances, protected
\* requests, honeypot hits and cleanups, the sessionIds that have a session
\* record are exactly the sessionIds that have a per-session limiter.
RecordsMatchLimiters == DOMAIN activeTokens = DOMAIN sessionLimiters

\* After the cleanup that removed the first session, which a second client
\* had presented and been blocked for, a second session has its record and
\* its limiter.
RecordsMatchLimitersWitness ==
    /\ now = FirstReap /\ nextSweep > now
    /\ Cardinality(Minted) = 2
    /\ DOMAIN activeTokens = {"u2"} /\ DOMAIN sessionLimiters = {"u2"}
    /\ "ipB" \in BLOCKED_IPS
    /\ \E s \in Slots : Rejected(s, SecurityViolation) /\ TokenOf(slots[s].req).sid = "u1"

\* A cleanup was held up: the next one is due less than an interval after
\* it by Date.now(), and the session of the start is there with its limiter.
RecordsMatchLimitersEarly ==
    /\ nextSweep > CLEANUP_INTERVAL_MS
    /\ nextSweep < now + CLEANUP_INTERVAL_MS
    /\ \E c \in Minted : minted[c] = 0 /\ c.sid \in DOMAIN activeTokens
    /\ DOMAIN sessionLimiters = DOMAIN activeTokens

----------------------------------------------------------------------------
\* C24: for every credential the issuer has handed out, at any time at
\* which the credential still passes the gate's verification its session
\* record is in the registry, holding that credential (the cleanup removes
\* no session whose credential is unexpired); so no request that carries
\* such a credential is answered InvalidSession.
UnexpiredIsRegistered ==
    /\ \A c \in Minted :
          JwtVerify(c, now) =>
              /\ c.sid \in DOMAIN activeTokens
              /\ activeTokens[c.sid].token = c
    /\ \A s \in Slots :
          Rejected(s, InvalidSession) => TokenOf(slots[s].req) \notin Minted

\* In the last millisecond of a credential handed out at the start, after a
\* cleanup that ran in that millisecond, a request carrying it was admitted.
UnexpiredIsRegisteredWitness ==
    \E s \in Slots :
        /\ Admitted(s)
        /\ TokenOf(slots[s].req) \in Minted
        /\ minted[TokenOf(slots[s].req)] = 0
        /\ now = TTL_MS - 1 /\ nextSweep = now + CLEANUP_INTERVAL_MS
        /\ slots[s].sessionId \in DOMAIN activeTokens

\* A credential of a session this process never registered is answered
\* InvalidSession; a credential handed out at the start has expired and its
\* record is still there, until the next cleanup.
UnexpiredIsRegisteredCases ==
    <<\E s \in Slots : Rejected(s, InvalidSession) /\ TokenOf(slots[s].req) = StaleCred,
      /\ now = TTL_MS /\ nextSweep > now
      /\ \E c \in Minted : ~JwtVerify(c, now) /\ c.sid \in DOMAIN activeTokens>>

----------------------------------------------------------------------------
(* Specification of the rejections: one client asks for a session and      *)
(* presents every shape of credential, a second client presents the        *)
(* session and then sends that request again and again until the global    *)
(* limiter turns it away; one request of each client in flight.            *)

FrameIssues == {IssueReq("ipA", GOOD_REFERER, "ua1")}
FrameReqs == {ProxyReq("ipA", Bearer(c), NoToken, FALSE, <<>>, TS) : c \in Creds}

NextFrame ==
    \/ Few({1}, FrameIssues)
    \/ Few({1}, FrameReqs)
    \/ Few({2}, TheftReqs)
    \/ RepeatOf({2}, TheftReqs)
    \/ Resume(Pair)

SpecFrame == Init /\ [][NextFrame]_vars

----------------------------------------------------------------------------
\* the answers of the gate's checks before the per-session limiter
EARLY_FAILURES == {Forbidden, Unauthenticated, InvalidToken, InvalidSession, SecurityViolation}

\* slot s takes a step of a request that is rejected before the per-session
\* limiter: its call of the global limiter, or the answer of the global
\* limiter or of one of the checks after it
RejectedEarly(s) ==
    \/ Begins(s, "awaitGlobal") /\ ~slots'[s].settled
    \/ Checks(s) /\ slots'[s].pc = "done"

\* C25: a protected request rejected before the per-session limiter, by the
\* global limiter or with Forbidden, Unauthenticated, InvalidToken,
\* InvalidSession or SecurityViolation, leaves the session records and every
\* per-session limiter as they were; after a SecurityViolation the session
\* is still registered with nothing consumed from its budget by that
\* request, and a request with the same credential from the recorded IP
\* (not blocked, within its budgets) still goes on to its session's limiter
\* and is served by it.
EarlyRejectionFrame ==
    [][\A s \in Slots :
          /\ RejectedEarly(s) =>
                /\ activeTokens' = activeTokens
                /\ sessionLimiters' = sessionLimiters
          /\ (Checks(s) /\ slots'[s].pc = "done") =>
                slots'[s].resp \in EARLY_FAILURES \cup {RateLimited}
          /\ (Checks(s) /\ slots'[s].resp = SecurityViolation) =>
                LET sid == TokenOf(slots[s].req).sid
                IN  /\ sid \in DOMAIN activeTokens'
                    /\ SessionConsumed(sid)' = SessionConsumed(sid)
          /\ \A t \in Slots :
                (/\ Rejected(t, SecurityViolation)
                 /\ TokenOf(slots[t].req) = TokenOf(slots[s].req)
                 /\ FromOwner(s)) =>
                    /\ slots'[s].pc = "awaitSession"
                    /\ slots'[s].settled = (SessionConsumed(TokenOf(slots[s].req).sid) < SESSION_POINTS)]_vars

\* The owner of a session was admitted with the credential for which
\* another client had been answered SecurityViolation before; that was the
\* first point consumed from the session's budget.
EarlyRejectionFrameWitness ==
    \E s, t \in Slots :
        /\ Rejected(t, SecurityViolation)
        /\ Admitted(s) /\ TokenOf(slots[s].req) = TokenOf(slots[t].req)
        /\ slots[t].req.ip \in BLOCKED_IPS /\ slots[s].req.ip \notin BLOCKED_IPS
        /\ SessionConsumed(slots[s].sessionId) = 1
        /\ Consumed(globalStore, slots[s].req.ip, now) = 1

\* The other rejections before the per-session limiter, with a session
\* registered.
EarlyRejectionFrameCases ==
    <<\E s \in Slots : Rejected(s, RateLimited) /\ LastStep(s) = "global" /\ activeTokens # Empty,
      \E s \in Slots : Rejected(s, Forbidden) /\ activeTokens # Empty,
      \E s \in Slots : Rejected(s, Unauthenticated) /\ activeTokens # Empty,
      \E s \in Slots : Rejected(s, InvalidToken) /\ activeTokens # Empty,
      \E s \in Slots : Rejected(s, InvalidSession) /\ activeTokens # Empty>>

----------------------------------------------------------------------------
(* Numbers.  extractWaypoints computes with JavaScript Numbers, which are  *)
(* IEEE 754 doubles: every sum, difference, product and quotient is the    *)
(* exact result rounded to 53 significant bits, ties to even.  A positive  *)
(* Number is modelled as [m |-> mantissa, e |-> exponent], the value being *)
(* mantissa * 2^exponent with 2^52 <= mantissa < 2^53, and zero as the     *)
(* record with an empty mantissa.  A mantissa, like every whole number     *)
(* that does not fit a machine integer here, is the sequence of its digits *)
(* to the base 2^15, the lowest first, without leading zeros.  The values  *)
(* of extractWaypoints are never negative, subnormal or infinite.          *)

LIMB_BITS == 15
BASE == 2 ^ LIMB_BITS
MANTISSA_BITS == 53

Min(a, b) == IF a < b THEN a ELSE b
Max(a, b) == IF a > b THEN a ELSE b

\* the digits of the whole number n >= 0
RECURSIVE NatOf(_)
NatOf(n) == IF n = 0 THEN <<>> ELSE <<n % BASE>> \o NatOf(n \div BASE)

\* the whole number of the digits a
RECURSIVE IntOf(_)
IntOf(a) == IF a = <<>> THEN 0 ELSE a[1] + BASE * IntOf(Tail(a))

\* a without its leading zeros
RECURSIVE Trim(_)
Trim(a) == IF a # <<>> /\ a[Len(a)] = 0 THEN Trim(SubSeq(a, 1, Len(a) - 1)) ELSE a

Limb(a, i) == IF i <= Len(a) THEN a[i] ELSE 0

\* -1, 0, 1 as a < b, a = b, a > b, comparing the digits i, i - 1, ..., 1
RECURSIVE NatCmpFrom(_, _, _)
NatCmpFrom(a, b, i) ==
    IF i = 0 THEN 0
    ELSE IF Limb(a, i) > Limb(b, i) THEN 1
    ELSE IF Limb(a, i) < Limb(b, i) THEN -1
    ELSE NatCmpFrom(a, b, i - 1)

NatCmp(a, b) == NatCmpFrom(a, b, Max(Len(a), Len(b)))

RECURSIVE NatAddFrom(_, _, _, _)
NatAddFrom(a, b, i, carry) ==
    IF i > Len(a) /\ i > Len(b)
    THEN IF carry = 0 THEN <<>> ELSE <<carry>>
    ELSE LET t == Limb(a, i) + Limb(b, i) + carry
         IN  <<t % BASE>> \o NatAddFrom(a, b, i + 1, t \div BASE)

\* a + b
NatAdd(a, b) == NatAddFrom(a, b, 1, 0)

RECURSIVE NatSubFrom(_, _, _, _)
NatSubFrom(a, b, i, borrow) ==
    IF i > Len(a) THEN <<>>
    ELSE LET t == a[i] - Limb(b, i) - borrow
         IN  IF t < 0 THEN <<t + BASE>> \o NatSubFrom(a, b, i + 1, 1)
             ELSE <<t>> \o NatSubFrom(a, b, i + 1, 0)

\* a - b, for a >= b
NatSub(a, b) == Trim(NatSubFrom(a, b, 1, 0))

RECURSIVE NatMulFrom(_, _, _, _)
NatMulFrom(a, k, i, carry) ==
    IF i > Len(a) THEN IF carry = 0 THEN <<>> ELSE <<carry>>
    ELSE LET t == a[i] * k + carry
         IN  <<t % BASE>> \o NatMulFrom(a, k, i + 1, t \div BASE)

\* a * k, for a whole number 0 <= k < BASE
NatMul(a, k) == IF k = 0 THEN <<>> ELSE NatMulFrom(a, k, 1, 0)

\* a * 2^s
NatShl(a, s) ==
    IF a = <<>> THEN <<>>
    ELSE [i \in 1..(s \div LIMB_BITS) |-> 0] \o NatMul(a, 2 ^ (s % LIMB_BITS))

\* floor(a / 2^s)
NatShr(a, s) ==
    LET b == SubSeq(a, s \div LIMB_BITS + 1, Len(a))
        r == s % LIMB_BITS
    IN  Trim([i \in 1..Len(b) |->
                 b[i] \div (2 ^ r) + (Limb(b, i + 1) % (2 ^ r)) * (2 ^ (LIMB_BITS - r))])

\* the bits of a below bit s are all zero
NatLowZero(a, s) ==
    /\ \A i \in 1..Min(s \div LIMB_BITS, Len(a)) : a[i] = 0
    /\ Limb(a, s \div LIMB_BITS + 1) % (2 ^ (s % LIMB_BITS)) = 0

\* bit j of a, the lowest being bit 0
NatBit(a, j) == (Limb(a, j \div LIMB_BITS + 1) \div (2 ^ (j % LIMB_BITS))) % 2

RECURSIVE BitsOfInt(_)
BitsOfInt(n) == IF n = 0 THEN 0 ELSE 1 + BitsOfInt(n \div 2)

\* the number of bits of a
NatBits(a) == IF a = <<>> THEN 0 ELSE LIMB_BITS * (Len(a) - 1) + BitsOfInt(a[Len(a)])

ZERO == [e |-> 0, m |-> <<>>]

\* The Number nearest to n * 2^e (plus a positive amount below the lowest
\* bit of n when sticky), a tie going to the even mantissa.
RoundToDouble(n, e, sticky) ==
    LET bits == NatBits(n)
        sh == bits - MANTISSA_BITS
    IN  IF sh <= 0
        THEN [e |-> e + sh, m |-> NatShl(n, -sh)]
        ELSE LET q == NatShr(n, sh)
                 half == NatBit(n, sh - 1) = 1
                 rest == sticky \/ ~NatLowZero(n, sh - 1)
                 up == half /\ (rest \/ q[1] % 2 = 1)
                 r == IF up THEN NatAdd(q, <<1>>) ELSE q
             IN  IF NatBits(r) > MANTISSA_BITS
                 THEN [e |-> e + sh + 1, m |-> NatShr(r, 1)]
                 ELSE [e |-> e + sh, m |-> r]

\* the Number of the whole number n >= 0
DoubleOf(n) == IF n = 0 THEN ZERO ELSE RoundToDouble(NatOf(n), 0, FALSE)

\* x + y
DoubleAdd(x, y) ==
    IF x.m = <<>> THEN y
    ELSE IF y.m = <<>> THEN x
    ELSE LET e == Min(x.e, y.e)
         IN  RoundToDouble(NatAdd(NatShl(x.m, x.e - e), NatShl(y.m, y.e - e)), e, FALSE)

\* x >= y
DoubleGe(x, y) ==
    IF y.m = <<>> THEN TRUE
    ELSE IF x.m = <<>> THEN FALSE
    ELSE LET e == Min(x.e, y.e)
         IN  NatCmp(NatShl(x.m, x.e - e), NatShl(y.m, y.e - e)) >= 0

\* x - y, for x >= y
DoubleSub(x, y) ==
    IF y.m = <<>> THEN x
    ELSE LET e == Min(x.e, y.e)
             d == NatSub(NatShl(x.m, x.e - e), NatShl(y.m, y.e - e))
         IN  IF d = <<>> THEN ZERO ELSE RoundToDouble(d, e, FALSE)

\* x * k, for a whole number 0 <= k < BASE
DoubleMul(x, k) ==
    IF x.m = <<>> \/ k = 0 THEN ZERO ELSE RoundToDouble(NatMul(x.m, k), x.e, FALSE)

\* Long division, DIGIT_BITS bits at a time.
DIGIT_BITS == 5
DIGIT_BASE == 2 ^ DIGIT_BITS

\* the bits of a from bit MANTISSA_BITS - LIMB_BITS up, as a whole number
Leading(a) == IntOf(NatShr(a, MANTISSA_BITS - LIMB_BITS))

\* the next digit of the quotient by d: the largest k with k * d <= r, for a
\* mantissa d and r < DIGIT_BASE * d.  The leading bits of r and d give
\* the digit or the one before it.
QuotientDigit(r, d) ==
    LET k == Leading(r) \div (Leading(d) + 1)
    IN  IF NatCmp(NatMul(d, k + 1), r) <= 0 THEN k + 1 ELSE k

\* the next n digits of the quotient by d, r < d being what is left to
\* divide, and after them a 1 if something is left in the end
RECURSIVE QuotientDigits(_, _, _)
QuotientDigits(r, d, n) ==
    IF n = 0 THEN <<IF r = <<>> THEN 0 ELSE 1>>
    ELSE LET rb == NatMul(r, DIGIT_BASE)
             k == QuotientDigit(rb, d)
         IN  <<k>> \o QuotientDigits(NatSub(rb, NatMul(d, k)), d, n - 1)

\* the whole number of the digits i to j of a sequence of digits to the
\* base DIGIT_BASE, the highest first
RECURSIVE DigitsValue(_, _, _)
DigitsValue(digits, i, j) ==
    IF i > j THEN 0 ELSE DIGIT_BASE * DigitsValue(digits, i, j - 1) + digits[j]

\* the same number to the base BASE, which is DIGIT_BASE^3, for a number of
\* digits that is a multiple of 3
NatOfDigits(digits) ==
    LET n == Len(digits) \div 3
    IN  Trim([i \in 1..n |-> DigitsValue(digits, 3 * (n - i) + 1, 3 * (n - i) + 3)])

\* x / y, for y > 0: the quotient of the mantissas to 55 or 56 bits, with
\* what is left of the division rounded away
DoubleDiv(x, y) ==
    IF x.m = <<>> THEN ZERO
    ELSE LET whole == NatCmp(x.m, y.m) >= 0
             n == 11
             digits == QuotientDigits(IF whole THEN NatSub(x.m, y.m) ELSE x.m, y.m, n)
             q == NatOfDigits(<<IF whole THEN 1 ELSE 0>> \o SubSeq(digits, 1, n))
         IN  RoundToDouble(q, x.e - y.e - n * DIGIT_BITS, digits[n + 1] = 1)

\* Math.floor(x), for x below 2^31
MathFloor(x) ==
    IF x.m = <<>> THEN 0
    ELSE IF x.e >= 0 THEN IntOf(NatShl(x.m, x.e))
    ELSE IntOf(NatShr(x.m, -x.e))

----------------------------------------------------------------------------
(* shared/extract-waypoints.ts: extractWaypoints(steps).  A step is its    *)
(* duration in seconds, a whole number, and the points                     *)
(* decodePolyline(step.geometry, 6) returns.  currentTime, segmentDuration *)
(* and the ratio are Numbers, computed as the code computes them;          *)
(* nextWaypointTime is a whole number of seconds, where every Number is    *)
(* exact.  A waypoint carries the two points it is interpolated between    *)
(* and the ratio in place of the interpolated lat and lon.                 *)

INTERVAL_SECONDS == 15 * 60
MAX_WAYPOINTS == 20

ServerVars == <<API_SECRET, JWT_SECRET, now, nextSweep, BLOCKED_IPS, activeTokens, sessionLimiters,
                globalStore, authStore, nextUuid, minted, granted, slots>>

\* The while loop of one segment.  currentTime + segmentDuration does not
\* change in the loop, so the loop pushes a waypoint for every interval
\* mark nextWaypointTime, nextWaypointTime + 900, ... that is not above it,
\* count of them, and leaves nextWaypointTime at the first mark above it.
\* A waypoint lies between the points p1 and p2 of the segment, lat = lat1
\* + (lat2 - lat1) * ratio and lon likewise.
WaypointsOfSegment(st, segmentDuration, p1, p2) ==
    LET end == DoubleAdd(st.currentTime, segmentDuration)
        count == IF DoubleGe(end, DoubleOf(st.nextWaypointTime))
                 THEN (MathFloor(end) - st.nextWaypointTime) \div INTERVAL_SECONDS + 1
                 ELSE 0
        pushed == [j \in 1..count |->
                      LET mark == st.nextWaypointTime + (j - 1) * INTERVAL_SECONDS
                      IN  [timeOffsetSec |-> mark, from |-> p1, to |-> p2,
                           ratio |-> DoubleDiv(DoubleSub(DoubleOf(mark), st.currentTime),
                                               segmentDuration)]]
    IN  [st EXCEPT !.waypoints = @ \o pushed,
                   !.nextWaypointTime = @ + count * INTERVAL_SECONDS]

\* the inner for loop, from segment st.i on (the source counts from 0)
RECURSIVE Segments(_, _, _)
Segments(st, step, segmentDuration) ==
    IF st.i > Len(step.coords) - 1 THEN st
    ELSE LET w == WaypointsOfSegment(st, segmentDuration,
                                     step.coords[st.i], step.coords[st.i + 1])
         IN  Segments([w EXCEPT !.currentTime = DoubleAdd(@, segmentDuration), !.i = @ + 1],
                      step, segmentDuration)

\* the outer for loop, from step st.k on
RECURSIVE Steps(_, _)
Steps(st, steps) ==
    IF st.k > Len(steps) THEN st
    ELSE LET step == steps[st.k]
         IN  IF Len(step.coords) < 2 \/ step.duration = 0
             THEN Steps([st EXCEPT !.k = @ + 1], steps)
             ELSE LET segmentDuration == DoubleDiv(DoubleOf(step.duration),
                                                   DoubleOf(Len(step.coords) - 1))
                  IN  Steps([Segments([st EXCEPT !.i = 1], step, segmentDuration)
                                 EXCEPT !.k = @ + 1], steps)

\* Thin with no limit on the number of waypoints
ThinNone(waypoints) == waypoints

\* `if (waypoints.length > maxWaypoints)`: Array.from({length: 20}, (_, i) =>
\* waypoints[Math.floor(i * step)]) with step = waypoints.length / 20
Thin(waypoints) ==
    IF Len(waypoints) > MAX_WAYPOINTS
    THEN LET step == DoubleDiv(DoubleOf(Len(waypoints)), DoubleOf(MAX_WAYPOINTS))
         IN  [i \in 1..MAX_WAYPOINTS |-> waypoints[MathFloor(DoubleMul(step, i - 1)) + 1]]
    ELSE waypoints

extractWaypoints(steps) ==
    Thin(Steps([k |-> 1, i |-> 1, waypoints |-> <<>>, currentTime |-> ZERO,
                nextWaypointTime |-> INTERVAL_SECONDS], steps).waypoints)

\* extractWaypoints is called with steps; it returns.
CallExtractWaypoints(steps) ==
    /\ calc.pc = "idle"
    /\ calc' = [NoCalc EXCEPT !.op = "extractWaypoints", !.pc = "called", !.steps = steps]
    /\ UNCHANGED ServerVars

ReturnExtractWaypoints ==
    /\ calc.op = "extractWaypoints" /\ calc.pc = "called"
    /\ calc' = [calc EXCEPT !.pc = "done", !.waypoints = extractWaypoints(calc.steps)]
    /\ UNCHANGED ServerVars

----------------------------------------------------------------------------
(* Specification of extractWaypoints: every list of up to MaxSteps steps   *)
(* with a duration of none, a third of an interval, one interval and       *)
(* fifteen intervals, and with 1 or 8 points, so that no segment lasts a   *)
(* whole number of seconds; and one step of 164 intervals between two      *)
(* points.                                                                 *)

MaxSteps == 3
DURATIONS == {0, 300, 900, 13500}
POINT_COUNTS == {1, 8}
Polyline(n) == [i \in 1..n |-> <<i, 2 * i>>]
DirectionSteps == {[duration |-> d, coords |-> Polyline(n)] : d \in DURATIONS, n \in POINT_COUNTS}
LongRoute == <<[duration |-> 164 * INTERVAL_SECONDS, coords |-> Polyline(2)]>>
StepLists == UNION {[1..n -> DirectionSteps] : n \in 0..MaxSteps} \cup {LongRoute}

NextWaypoints ==
    \/ \E steps \in StepLists : CallExtractWaypoints(steps)
    \/ ReturnExtractWaypoints

SpecWaypoints == Init /\ [][NextWaypoints]_vars

----------------------------------------------------------------------------
\* total duration of the steps that are not skipped
RECURSIVE TotalDuration(_)
TotalDuration(steps) ==
    IF steps = <<>> THEN 0
    ELSE (IF Len(Head(steps).coords) < 2 THEN 0 ELSE Head(steps).duration)
         + TotalDuration(Tail(steps))

\* C26: for every list of direction steps with durations that are
\* non-negative whole numbers, extractWaypoints returns, with at most 20
\* waypoints, whose timeOffsetSec are positive multiples of 900 seconds in
\* strictly increasing order, none over the total duration of the steps
\* that were not skipped.
WaypointsInOrder ==
    (calc.op = "extractWaypoints" /\ calc.pc = "done") =>
        LET w == calc.waypoints
        IN  /\ Len(w) <= 20
            /\ \A i \in 1..Len(w) :
                  /\ w[i].timeOffsetSec > 0
                  /\ w[i].timeOffsetSec % 900 = 0
                  /\ w[i].timeOffsetSec <= TotalDuration(calc.steps)
            /\ \A i \in 1..(Len(w) - 1) : w[i].timeOffsetSec < w[i + 1].timeOffsetSec

\* Three steps of fifteen intervals over 8 points each: the sum of the 21
\* segment durations stays below 40500, so 44 waypoints were found, and 20
\* of them returned, the last one being the 42nd.
WaypointsInOrderWitness ==
    /\ calc.op = "extractWaypoints" /\ calc.pc = "done"
    /\ Len(calc.steps) = 3
    /\ \A k \in 1..3 : calc.steps[k].duration = 13500 /\ Len(calc.steps[k].coords) = 8
    /\ TotalDuration(calc.steps) = 45 * 900
    /\ Len(calc.waypoints) = 20
    /\ calc.waypoints[1].timeOffsetSec = 900
    /\ calc.waypoints[6].timeOffsetSec = 12 * 900
    /\ calc.waypoints[20].timeOffsetSec = 42 * 900

\* A step with one point is skipped and the step after it reaches the first
\* mark in its last segment, at the ratio 1 - 2^-52; steps shorter than an
\* interval give no waypoint; of the 164 waypoints of the long route the
\* sixteenth returned is the 123rd, Math.floor(15 * 8.2) being 122.
WaypointsInOrderCases ==
    <<calc.pc = "done" /\ Len(calc.steps) = 2
         /\ Len(calc.steps[1].coords) = 1 /\ calc.steps[1].duration = 13500
         /\ calc.steps[2].duration = 900 /\ Len(calc.steps[2].coords) = 8
         /\ Len(calc.waypoints) = 1
         /\ calc.waypoints[1].from = calc.steps[2].coords[7]
         /\ calc.waypoints[1].ratio = [e |-> -53, m |-> <<32766, 32767, 32767, 255>>],
      calc.pc = "done" /\ Len(calc.steps) = 2 /\ TotalDuration(calc.steps) = 600
         /\ calc.waypoints = <<>>,
      calc.pc = "done" /\ calc.steps = LongRoute
         /\ Len(calc.waypoints) = 20
         /\ calc.waypoints[16].timeOffsetSec = 123 * 900
         /\ calc.waypoints[20].timeOffsetSec = 156 * 900>>

----------------------------------------------------------------------------
(* shared/format: formatDuration(seconds).  The string is the sequence of  *)
(* the pieces the template literal joins.                                  *)

SECONDS_PER_HOUR == 3600
SECONDS_PER_MINUTE == 60

\* Math.floor(x / y) of whole numbers x >= 0, y > 0
MathFloorDiv(x, y) == x \div y

\* Math.round(x / y) of whole numbers x >= 0, y > 0: the nearest whole
\* number, a half rounded up
MathRoundDiv(x, y) == (2 * x + y) \div (2 * y)

formatDuration(seconds) ==
    LET hours == MathFloorDiv(seconds, SECONDS_PER_HOUR)
        minutes == MathRoundDiv(seconds % SECONDS_PER_HOUR, SECONDS_PER_MINUTE)
    IN  IF hours > 0
        THEN <<ToString(hours), " h ", ToString(minutes), " min">>
        ELSE <<ToString(minutes), " min">>

\* formatDuration is called with seconds; it returns.
CallFormatDuration(seconds) ==
    /\ calc.pc = "idle"
    /\ calc' = [NoCalc EXCEPT !.op = "formatDuration", !.pc = "called", !.seconds = seconds]
    /\ UNCHANGED ServerVars

ReturnFormatDuration ==
    /\ calc.op = "formatDuration" /\ calc.pc = "called"
    /\ calc' = [calc EXCEPT !.pc = "done", !.text = formatDuration(calc.seconds)]
    /\ UNCHANGED ServerVars

----------------------------------------------------------------------------
(* Specification of formatDuration: every whole number of seconds up to    *)
(* MaxSeconds, two hours.                                                  *)

MaxSeconds == 7200

NextFormat ==
    \/ \E seconds \in 0..MaxSeconds : CallFormatDuration(seconds)
    \/ ReturnFormatDuration

SpecFormat == Init /\ [][NextFormat]_vars

----------------------------------------------------------------------------
\* the pieces of a formatted duration: the minutes, and whether the hours
\* are there
MinutesOf(text) == text[Len(text) - 1]
HasHours(text) == Len(text) = 4 /\ text[2] = " h "

\* C27: for every non-negative whole number of seconds, formatDuration
\* returns a string whose minutes are between 0 and 59, and which has the
\* hours exactly when the duration is at least 3600 seconds.
MinutesBelowSixty ==
    (calc.op = "formatDuration" /\ calc.pc = "done") =>
        /\ MinutesOf(calc.text) \in {ToString(m) : m \in 0..59}
        /\ HasHours(calc.text) <=> calc.seconds >= 3600

\* What the code does: the minutes are the remainder of the hour rounded to
\* the nearest minute, between 0 and 60; 60 in the last 30 seconds of every
\* hour.
MinutesUpToSixty ==
    (calc.op = "formatDuration" /\ calc.pc = "done") =>
        /\ MinutesOf(calc.text) \in {ToString(m) : m \in 0..60}
        /\ MinutesOf(calc.text) = "60" <=> calc.seconds % 3600 >= 3570
        /\ HasHours(calc.text) <=> calc.seconds >= 3600

\* 3570 seconds are formatted as "60 min", 7170 seconds as "1 h 60 min".
MinutesUpToSixtyCases ==
    <<calc.pc = "done" /\ calc.seconds = 3570 /\ calc.text = <<"60", " min">>,
      calc.pc = "done" /\ calc.seconds = 7170 /\ calc.text = <<"1", " h ", "60", " min">>,
      calc.pc = "done" /\ calc.seconds = 3600 /\ calc.text = <<"1", " h ", "0", " min">>>>

====
